---- MODULE Spec2Model ----
(***************************************************************************)
(* A state-machine model of the cooperative classification engine          *)
(* (Inquisitor, src/service/Inquisitor.ts v2.3.3) and of the generic       *)
(* interval adapter (AsyncIntervalAdapter).                                *)
(*                                                                         *)
(* One JavaScript turn (a public call, or one timer callback) is one       *)
(* action.  Timers created with setInterval are kept in explicit tables,   *)
(* so that a leaked or wrongly cleared timer is visible; promises are      *)
(* kept in tables indexed by the call that created them.                   *)
(***************************************************************************)
EXTENDS Integers, Sequences, FiniteSets, TLC

(***************************************************************************)
(* Bounds of the model.                                                    *)
(***************************************************************************)
\* number of operations started in one behaviour: the calls of
\* inspect_to_signals, inspect_to_report and set_criteria taken together
MaxCalls == 3
\* number of start_new calls on the AsyncIntervalAdapter in one behaviour
MaxStarts == 4
\* number of elements a caller appends to the list of a running start_new call
MaxPushes == 1
\* number of start_new calls with a list in one behaviour
MaxLists == 2
\* number of timers a DelayedSignal arms in one behaviour
MaxArms == 3
\* number of signals a DelayedSignal has emitted before invoke() is left out
MaxSignals == 3
\* the clock of the DelayedSignal stops at MaxTime
MaxTime == 3
\* remove_item calls of one behaviour
MaxRemovals == 3

(***************************************************************************)
(* Program constants.  MAX_CACHE_SIZE (1000 in the source) and BATCH_SIZE  *)
(* (25 in the source) are scaled down so that eviction and multi-tick      *)
(* batches happen within the bounds above.                                 *)
(***************************************************************************)
MAX_CACHE_SIZE == 2
BATCH_SIZE == 2
\* the "no timer" value of a SourceID field (null)
NO_SOURCE == 0
\* an unset controller callback (undefined)
NO_CALLBACK == 0
NO_TIMER == 0
NO_HANDLER == 0

(***************************************************************************)
(* JavaScript values.  A value is a record [t, v]: t is its typeof-like    *)
(* tag, v its text as a sequence of one-character strings (so that a glob  *)
(* can be matched against it character by character).                      *)
(***************************************************************************)
Str(s) == [t |-> "string", v |-> s]
Null == [t |-> "null", v |-> <<>>]
Undefined == [t |-> "undefined", v |-> <<>>]

\* ToBoolean, as used by `if (criterion.label)` and `if (oldest_uri)`
Truthy(x) ==
    CASE x.t = "string" -> x.v # <<>>
      [] x.t = "number" -> x.v # <<"0">>
      [] x.t = "boolean" -> x.v = <<"true">>
      [] OTHER -> FALSE

Range(s) == {s[i] : i \in 1..Len(s)}

Min(a, b) == IF a <= b THEN a ELSE b

(***************************************************************************)
(* GLib.PatternSpec.match_string: '*' matches any run of characters        *)
(* (also the empty one), '?' matches exactly one character, every other    *)
(* character matches itself.                                               *)
(***************************************************************************)
RECURSIVE match_string(_, _)
match_string(pattern, text) ==
    IF pattern = <<>> THEN text = <<>>
    ELSE IF Head(pattern) = "*"
         THEN \/ match_string(Tail(pattern), text)
              \/ text # <<>> /\ match_string(pattern, Tail(text))
    ELSE IF text = <<>> THEN FALSE
    ELSE /\ (Head(pattern) = "?" \/ Head(pattern) = Head(text))
         /\ match_string(Tail(pattern), Tail(text))

(***************************************************************************)
(* Errors and promises.                                                    *)
(***************************************************************************)
Err(name, message) == [name |-> name, message |-> message]
NoError == Err("", "")

NoReport == [defined |-> FALSE, rows |-> <<>>]
EmptyReport == [defined |-> TRUE, rows |-> <<>>]

Pending == [state |-> "pending", error |-> NoError, report |-> NoReport]
Fulfilled(report) == [state |-> "fulfilled", error |-> NoError, report |-> report]
Rejected(error) == [state |-> "rejected", error |-> error, report |-> NoReport]

\* a native resolve/reject function: settles its promise once, later calls are no-ops;
\* NO_CALLBACK stands for a controller slot that holds no function
Settle(promises, id, outcome) ==
    IF id \in DOMAIN promises /\ promises[id].state = "pending"
    THEN [promises EXCEPT ![id] = outcome]
    ELSE promises

(***************************************************************************)
(* Inputs.  A recent item is the tuple [uri, uri_display]; uri_display is  *)
(* a string or null.  A criterion is whatever the caller put in the array: *)
(* obj says whether it is a non-null object, the other fields are its      *)
(* properties (Undefined when absent).                                     *)
(***************************************************************************)
Item(uri, uri_display) == [uri |-> uri, uri_display |-> uri_display]

Criterion(type, pattern, label) ==
    [obj |-> TRUE, type |-> type, pattern |-> pattern, label |-> label]
NotAnObject == [obj |-> FALSE, type |-> "", pattern |-> Undefined, label |-> Undefined]

\* the values a caller can put in the fields of a criterion, and the
\* criteria made of them
Num(n) == [t |-> "number", v |-> <<n>>]
Bool(b) == [t |-> "boolean", v |-> <<b>>]
CriterionTypes == {"glob", "regexp", ""}
CriterionPatterns == {Undefined, Null, Str(<<>>), Str(<<"*", "t">>), Num("7")}
CriterionLabels ==
    {Undefined, Null, Str(<<>>), Str(<<"L">>), Num("0"), Num("7"), Bool("false"), Bool("true")}
CriterionValues ==
    {NotAnObject}
    \cup {Criterion(type, pattern, label) :
              type \in CriterionTypes, pattern \in CriterionPatterns,
              label \in CriterionLabels}

\* the recent-files history the host draws its item lists from
History ==
    << Item("", Str(<<"x", "u">>)),      \* a file no rule matches, its URI the empty string
       Item("e", Str(<<"x", "u">>)),     \* a file no rule matches
       Item("d", Null),                  \* an entry without a display name
       Item("a", Str(<<"x", "t">>)),     \* a file both rules "?t" and "*t" match
       Item("b", Str(<<>>)),             \* an entry with an empty display name ...
       Item("b", Str(<<"x", "u">>)) >>   \* ... and one of the same URI that no rule matches

\* the item lists handed to a classification call
ItemLists == { <<>>, SubSeq(History, 1, 3), SubSeq(History, 4, 6) }

\* the settings the host draws its criteria from
Settings ==
    << Criterion("glob", Str(<<"?", "t">>), Str(<<"L">>)),
       Criterion("glob", Str(<<"*", "t">>), Undefined),
       NotAnObject >>

\* a list with a malformed tuple, ['a'], which has no display element
FaultyItems == << Item("e", Str(<<"x", "u">>)), Item("a", Undefined) >>

\* a criterion whose label is an accessor property that throws
Throws == [t |-> "throws", v |-> <<>>]
FaultyCriteria ==
    [kind |-> "array",
     elems |-> << Criterion("glob", Str(<<"*", "t">>), Undefined),
                  Criterion("glob", Str(<<"?", "t">>), Throws) >>]

\* what set_criteria is handed: a real array, an array-like object that is
\* not an Array ({length: 1, 0: ..}), or null/undefined
CriteriaArgs ==
    { [kind |-> "array", elems |-> <<>>],
      [kind |-> "array", elems |-> SubSeq(Settings, 1, 2)],
      [kind |-> "array", elems |-> SubSeq(Settings, 2, 3)],
      [kind |-> "arraylike", elems |-> SubSeq(Settings, 2, 2)],
      [kind |-> "nullish", elems |-> <<>>] }


(***************************************************************************)
(* Validation and compilation of one criterion (the body of the            *)
(* validation tick).                                                       *)
(***************************************************************************)
CriteriaValidateError(message) == Err("CriteriaValidateError", message)

compile_criterion(criterion) ==
    IF ~criterion.obj
    THEN [ok |-> FALSE, error |-> CriteriaValidateError("Criterion must be non null object")]
    ELSE IF criterion.label.t = "throws"
    THEN \* `criterion.label` is an accessor that throws
         [ok |-> FALSE, error |-> Err("Error", "label getter")]
    ELSE IF Truthy(criterion.label) /\ criterion.label.t # "string"
    THEN [ok |-> FALSE, error |-> CriteriaValidateError("Invalid label")]
    ELSE IF criterion.type = "glob"
    THEN IF criterion.pattern.t = "string" /\ Len(criterion.pattern.v) > 0
         THEN [ok |-> TRUE,
               rule |-> [type |-> "glob",
                         pattern_spec |-> criterion.pattern.v,
                         label |-> IF criterion.label.t \in {"null", "undefined"}
                                   THEN criterion.pattern
                                   ELSE criterion.label]]
         ELSE [ok |-> FALSE, error |-> CriteriaValidateError("Invalid glob pattern")]
    ELSE [ok |-> FALSE, error |-> CriteriaValidateError("Unsupported criteria type")]

(***************************************************************************)
(* The cache of clean URIs: a JavaScript Set, kept as the sequence of its  *)
(* members in insertion order.                                             *)
(***************************************************************************)
add_to_trustworthy_list(list, uri) ==
    LET evicted ==
            IF Len(list) >= MAX_CACHE_SIZE
            THEN \* `if (oldest_uri)`: the empty string is falsy and is not deleted
                 IF list # <<>> /\ Head(list) # "" THEN Tail(list) ELSE list
            ELSE list
    IN  IF uri \in Range(evicted) THEN evicted ELSE Append(evicted, uri)

(***************************************************************************)
(* Matching one item.                                                      *)
(***************************************************************************)
LintLabel ==
    Str(<<"M", "I", "S", "S", "I", "N", "G", "-", "D", "I", "S", "P", "L", "A", "Y",
          "-", "U", "R", "I">>)
LintSin == <<"lint", LintLabel>>

\* one criterion against a display name: <<sin>> on a match, <<>> otherwise
get_sin(criterion, uri_display) ==
    IF criterion.type = "glob" /\ match_string(criterion.pattern_spec, uri_display)
    THEN << <<criterion.type, criterion.label>> >>
    ELSE <<>>

\* everything the generator check_criteria would yield if it were drained
RECURSIVE all_sins(_, _)
all_sins(criteria, uri_display) ==
    IF criteria = <<>> THEN <<>>
    ELSE get_sin(Head(criteria), uri_display) \o all_sins(Tail(criteria), uri_display)

\* number of criteria the generator evaluates up to and including its first yield
RECURSIVE first_hit(_, _)
first_hit(criteria, uri_display) ==
    IF criteria = <<>> THEN 0
    ELSE IF get_sin(Head(criteria), uri_display) # <<>> THEN 1
    ELSE 1 + first_hit(Tail(criteria), uri_display)

\* the guard of check_criteria without its length test
HasDisplay_not_null(uri_display) == uri_display.t # "null"

HasDisplay(uri_display) == uri_display.t # "null" /\ Len(uri_display.v) > 0

\* check_criteria consumed up to its first yield in either mode
check_criteria_first_only(criteria, uri_display, mode) ==
    IF HasDisplay(uri_display)
    THEN LET all == all_sins(criteria, uri_display.v)
         IN  IF all # <<>>
             THEN [sins |-> <<Head(all)>>, evaluated |-> first_hit(criteria, uri_display.v)]
             ELSE [sins |-> all, evaluated |-> Len(criteria)]
    ELSE [sins |-> <<LintSin>>, evaluated |-> 0]

\* check_criteria with a LAZY mode that goes through all criteria and yields
\* the last match
check_criteria_last_match(criteria, uri_display, mode) ==
    IF HasDisplay(uri_display)
    THEN LET all == all_sins(criteria, uri_display.v)
         IN  IF mode = "LAZY" /\ all # <<>>
             THEN [sins |-> <<all[Len(all)]>>, evaluated |-> Len(criteria)]
             ELSE [sins |-> all, evaluated |-> Len(criteria)]
    ELSE [sins |-> <<LintSin>>, evaluated |-> 0]

\* check_criteria as consumed by process_interval_cb: in LAZY mode the loop
\* breaks after the first yield, in REPORT mode the generator is drained.
\* sins: what was pushed; evaluated: how many criteria get_sin was called on.
check_criteria(criteria, uri_display, mode) ==
    IF HasDisplay(uri_display)
    THEN LET all == all_sins(criteria, uri_display.v)
         IN  IF mode = "LAZY" /\ all # <<>>
             THEN [sins |-> <<Head(all)>>, evaluated |-> first_hit(criteria, uri_display.v)]
             ELSE [sins |-> all, evaluated |-> Len(criteria)]
    ELSE [sins |-> <<LintSin>>, evaluated |-> 0]

Unknown == <<"<", "u", "n", "k", "n", "o", "w", "n", ">">>
Empty == <<"<", "e", "m", "p", "t", "y", ">">>

\* the display column of a report row
report_display(uri_display) ==
    IF uri_display.t = "null" THEN Unknown
    ELSE IF Len(uri_display.v) > 0 THEN uri_display.v
    ELSE Empty

(***************************************************************************)
(* The Inquisitor object and the event loop around it.                     *)
(*                                                                         *)
(* process_intervals[n] / criteria_intervals[n] is the timer created by    *)
(* the n-th classification / set_criteria call, with the arguments and     *)
(* closure variables bound to it; process_promises[n] /                    *)
(* criteria_promises[n] is the Promise that call returned.  A SourceID is  *)
(* the index of its timer, a stored resolve/reject function the index of   *)
(* its promise.                                                            *)
(***************************************************************************)
VARIABLES
    eligibility_criteria,   \* the live compiled criteria
    trustworthy_list,       \* the cache of clean URIs, in insertion order
    process_operation,      \* [source, controller: [resolve, reject], report]
    criteria_operation,     \* [source, current_index, controller: [resolve, reject]]
    decommissioned,         \* decommission() has run: fields undefined, methods replaced
    process_intervals,      \* timers of classification calls: [live, items_infos, mode] and,
                            \* as history, the list as it was given (given, while the
                            \* timer is live), its length (total) and the number of
                            \* items the timer's own ticks have processed (processed)
    criteria_intervals,     \* timers of set_criteria calls: [live, criteria, compiled]
    process_promises,       \* promises returned by inspect_to_signals / inspect_to_report
    criteria_promises,      \* promises returned by set_criteria
    emitted,                \* 'matched-result' emissions of the latest classification tick: <<uri, sin>>
    cached_as,              \* history: the display name each cached URI was cached with
    burst,                  \* history: the classification calls issued back to back
    cache_before            \* history: trustworthy_list just before each set_criteria call

\* the AsyncIntervalAdapter, an object of its own
VARIABLES
    adapter_controller,     \* process.controller: [source, resolve, reject]
    adapter_intervals,      \* timers of start_new calls: [live, items] and, as history,
                            \* given (all that was put in items) and results
    adapter_promises,       \* promises returned by start_new
    adapter_saved           \* the calls whose wrappers the callback has kept

VARIABLES
    criterion_arg,          \* a criterion handed to the validation step
    criterion_compiled      \* what the validation step made of it

compile_vars == <<criterion_arg, criterion_compiled>>

VARIABLES
    ds_timer,               \* DelayedSignal.timer: a timeout of ds_timeouts, or NO_TIMER
    ds_timeouts,            \* the timeouts created by setTimeout: [live, due]
    ds_delay,               \* DelayedSignal.delay; 0 once it is undefined
    ds_decommissioned,      \* decommission() has run: the methods are replaced
    ds_emitted,             \* the signals emitted so far, in order
    ds_now                  \* the clock, in units of time

delayed_vars == <<ds_timer, ds_timeouts, ds_delay, ds_decommissioned, ds_emitted, ds_now>>

\* the RecentFilesProvider, with the Gtk.Settings and Gtk.RecentManager it watches
VARIABLES
    rfp_requested,          \* state_context.monitoring_requested
    rfp_enabled,            \* Gtk.Settings gtk-recent-files-enabled
    rfp_previous_state,     \* state_context.previous_state
    rfp_handler,            \* handlers_ids.recent_manager
    rfp_connected,          \* the handlers of 'changed' the provider has connected
    rfp_source,             \* remove_process_context.source: the removal timer is armed
    rfp_queue,              \* remove_process_context.remove_queue, in insertion order
    rfp_promises,           \* the promises returned by remove_item
    rfp_history,            \* the URIs the recent manager holds
    rfp_decommissioned      \* decommission() has run

provider_vars ==
    << rfp_requested, rfp_enabled, rfp_previous_state, rfp_handler, rfp_connected,
       rfp_source, rfp_queue, rfp_promises, rfp_history, rfp_decommissioned >>

adapter_vars == <<adapter_controller, adapter_intervals, adapter_promises, adapter_saved>>

inq_vars ==
    << eligibility_criteria, trustworthy_list, process_operation, criteria_operation,
       decommissioned, process_intervals, criteria_intervals, process_promises,
       criteria_promises, emitted, cached_as, burst, cache_before >>

\* the object and its timers and promises, as one record the methods transform
This ==
    [ eligibility_criteria |-> eligibility_criteria,
      trustworthy_list |-> trustworthy_list,
      process_operation |-> process_operation,
      criteria_operation |-> criteria_operation,
      decommissioned |-> decommissioned,
      process_intervals |-> process_intervals,
      criteria_intervals |-> criteria_intervals,
      process_promises |-> process_promises,
      criteria_promises |-> criteria_promises,
      emitted |-> <<>>,
      evaluated |-> <<>>,
      cached |-> <<>>,
      ret |-> "",
      thrown |-> "",
      caught |-> "" ]

NoProcessOperation ==
    [source |-> NO_SOURCE,
     controller |-> [resolve |-> NO_CALLBACK, reject |-> NO_CALLBACK],
     report |-> NoReport]

NoCriteriaOperation ==
    [source |-> NO_SOURCE,
     current_index |-> 0,
     controller |-> [resolve |-> NO_CALLBACK, reject |-> NO_CALLBACK]]

ProcessAbortError(message) == Err("ProcessAbortError", message)
SetCriteriaCancelledError(message) == Err("SetCriteriaCancelledError", message)

\* clearInterval on a timer of either table; clearInterval(null) does nothing.
\* A cleared timer never fires again; the array bound to it is left as it is.
clear_process_interval(st, source) ==
    IF source \in DOMAIN st.process_intervals
    THEN [st EXCEPT !.process_intervals[source].live = FALSE,
                    !.process_intervals[source].given = <<>>,
                    !.process_intervals[source].processed = 0,
                    !.process_intervals[source].total = 0]
    ELSE st

\* a completion that leaves its timer armed
finish_process_interval_skipped(st, source) == st

\* clearInterval by the tick that finds the list empty: the counts of the run
\* are kept as its history
finish_process_interval(st, source) ==
    IF source \in DOMAIN st.process_intervals
    THEN [st EXCEPT !.process_intervals[source].live = FALSE,
                    !.process_intervals[source].given = <<>>]
    ELSE st

clear_criteria_interval(st, source) ==
    IF source \in DOMAIN st.criteria_intervals
    THEN [st EXCEPT !.criteria_intervals[source].live = FALSE,
                    !.criteria_intervals[source].compiled = <<>>]
    ELSE st

\* calling a stored controller function; calling an unset one is a TypeError
call_process_controller(st, fn, outcome) ==
    IF fn = NO_CALLBACK
    THEN [st EXCEPT !.thrown = "TypeError"]
    ELSE [st EXCEPT !.process_promises = Settle(@, fn, outcome)]

call_criteria_controller(st, fn, outcome) ==
    IF fn = NO_CALLBACK
    THEN [st EXCEPT !.thrown = "TypeError"]
    ELSE [st EXCEPT !.criteria_promises = Settle(@, fn, outcome)]

\* process_abort that rejects the promise and forgets the timer without
\* clearInterval
process_abort_leaves_timer(st, msg) ==
    IF st.process_operation.source # NO_SOURCE
    THEN LET s2 == [st EXCEPT !.process_operation.source = NO_SOURCE]
             s3 == call_process_controller(s2, s2.process_operation.controller.reject,
                                           Rejected(ProcessAbortError(msg)))
             s4 == [s3 EXCEPT !.process_operation.controller.reject = NO_CALLBACK]
         IN  [s4 EXCEPT !.ret = "true"]
    ELSE [st EXCEPT !.ret = "false"]

(***************************************************************************)
(* process_abort(msg)                                                      *)
(***************************************************************************)
process_abort(st, msg) ==
    IF st.process_operation.source # NO_SOURCE
    THEN LET s1 == clear_process_interval(st, st.process_operation.source)
             s2 == [s1 EXCEPT !.process_operation.source = NO_SOURCE]
             s3 == call_process_controller(s2, s2.process_operation.controller.reject,
                                           Rejected(ProcessAbortError(msg)))
             s4 == [s3 EXCEPT !.process_operation.controller.reject = NO_CALLBACK]
         IN  [s4 EXCEPT !.ret = "true"]
    ELSE [st EXCEPT !.ret = "false"]

\* the Promise executor of do_process: the controller is stored and the timer
\* started with the list and the mode bound to its callback
start_process(st, items_infos, mode) ==
    LET id == Len(st.process_promises) + 1
        s2 == [st EXCEPT !.process_operation.report =
                              IF mode = "REPORT" THEN EmptyReport ELSE NoReport,
                         !.process_promises = Append(@, Pending),
                         !.process_operation.controller.reject = id,
                         !.process_operation.controller.resolve = id,
                         !.process_intervals =
                              Append(@, [live |-> TRUE, items_infos |-> items_infos,
                                         mode |-> mode, given |-> items_infos,
                                         processed |-> 0, total |-> Len(items_infos)]),
                         !.process_operation.source = id,
                         !.ret = "promise"]
    IN  s2

\* do_process without its opening process_abort: the operation in flight is
\* left alone and only loses its place in process_operation
do_process_keeps_previous(st, items_infos, mode) == start_process(st, items_infos, mode)

(***************************************************************************)
(* do_process(items_infos, mode), behind inspect_to_signals and            *)
(* inspect_to_report                                                       *)
(***************************************************************************)
do_process(st, items_infos, mode) ==
    start_process(process_abort(st, "New process will be initiated"), items_infos, mode)

\* set_criteria that does not cancel the set_criteria operation in flight
cancel_previous_criteria_skipped(st) == st

\* set_criteria: a previous operation that is still running is cancelled
cancel_previous_criteria(st) ==
    IF st.criteria_operation.source # NO_SOURCE
    THEN LET a == call_criteria_controller(
                      st, st.criteria_operation.controller.reject,
                      Rejected(SetCriteriaCancelledError("Superseded by newer operation")))
         IN  [clear_criteria_interval(a, st.criteria_operation.source)
                 EXCEPT !.criteria_operation.source = NO_SOURCE]
    ELSE st

\* set_criteria that empties the criteria and keeps the cache
reset_criteria_keeps_cache(st) == [st EXCEPT !.eligibility_criteria = <<>>]

\* set_criteria: the criteria are emptied at once, then the cache
reset_criteria(st) ==
    [st EXCEPT !.eligibility_criteria = <<>>,
               !.trustworthy_list = <<>>]

\* set_criteria: the Array test, the controller and the validation timer; id is
\* the promise being constructed
start_criteria(st, criteria) ==
    LET id == Len(st.criteria_promises)
    IN  [st EXCEPT
            \* `if (!Array.isArray(criteria)) reject(...)`: the executor goes on after it
            !.criteria_promises =
                IF criteria.kind # "array"
                THEN Settle(@, id, Rejected(CriteriaValidateError("Criterion must be an Array")))
                ELSE @,
            !.criteria_operation.controller.reject = id,
            !.criteria_operation.controller.resolve = id,
            !.criteria_operation.current_index = 0,
            !.criteria_intervals = Append(@, [live |-> TRUE, criteria |-> criteria,
                                              compiled |-> <<>>]),
            !.criteria_operation.source = id,
            !.ret = "promise"]

\* a set_criteria that leaves the classification in flight running
set_criteria_keeps_process(st, criteria) ==
    start_criteria(
        reset_criteria(
            cancel_previous_criteria(
                [st EXCEPT !.criteria_promises = Append(@, Pending)])),
        criteria)

(***************************************************************************)
(* set_criteria(criteria): the synchronous part (the Promise executor)     *)
(***************************************************************************)
set_criteria(st, criteria) ==
    start_criteria(
        reset_criteria(
            process_abort(
                cancel_previous_criteria(
                    [st EXCEPT !.criteria_promises = Append(@, Pending)]),
                "Stopping for criteria update")),
        criteria)

(***************************************************************************)
(* Handlers of 'matched-result'                                            *)
(***************************************************************************)
\* what a handler connected to 'matched-result' does when the signal is
\* emitted: nothing, or one call of a public method of the object
NoHandler == [kind |-> "none", items_info |-> <<>>,
              criteria |-> [kind |-> "array", elems |-> <<>>]]
Handlers ==
    {NoHandler}
    \cup {[kind |-> k, items_info |-> l, criteria |-> NoHandler.criteria] :
              k \in {"inspect_to_signals", "inspect_to_report"}, l \in ItemLists}
    \cup {[kind |-> "set_criteria", items_info |-> <<>>, criteria |-> c] :
              c \in {a \in CriteriaArgs : a.kind = "array"}}
    \cup {[kind |-> "process_abort", items_info |-> <<>>, criteria |-> NoHandler.criteria]}

\* this.emit('matched-result', uri, sin): the handlers run synchronously,
\* inside the tick
emit_matched_result(st, reaction) ==
    LET r == CASE reaction.kind = "inspect_to_signals" ->
                      do_process(st, reaction.items_info, "LAZY")
               [] reaction.kind = "inspect_to_report" ->
                      do_process(st, reaction.items_info, "REPORT")
               [] reaction.kind = "set_criteria" -> set_criteria(st, reaction.criteria)
               [] reaction.kind = "process_abort" -> process_abort(st, "Process aborted")
               [] OTHER -> st
    IN  [r EXCEPT !.ret = ""]

(***************************************************************************)
(* process_interval_cb(items_infos, mode): one tick of a classification    *)
(***************************************************************************)
\* an emission that does not look at the mode
item_emit_any_mode(st, item, mode, reaction, known, sins) ==
    IF ~known /\ sins # <<>>
    THEN emit_matched_result([st EXCEPT !.emitted = Append(@, <<item.uri, sins[1]>>)],
                             reaction)
    ELSE st

\* the body of the for loop from the emission on; known: the cache has the
\* URI, check: what check_criteria gave. The emission in LAZY mode:
item_emit(st, item, mode, reaction, known, sins) ==
    IF ~known /\ mode = "LAZY" /\ sins # <<>>
    THEN emit_matched_result([st EXCEPT !.emitted = Append(@, <<item.uri, sins[1]>>)],
                             reaction)
    ELSE st

\* every item the cache does not have goes to the cache, sins or not
item_trust_always(st, item, known, sins) ==
    IF ~known
    THEN [st EXCEPT !.trustworthy_list = add_to_trustworthy_list(@, item.uri),
                    !.cached = Append(@, item)]
    ELSE st

\* no item goes to the cache of clean URIs
item_trust_never(st, item, known, sins) == st

\* an item without sins goes to the cache of clean URIs
item_trust(st, item, known, sins) ==
    IF ~known /\ sins = <<>>
    THEN [st EXCEPT !.trustworthy_list = add_to_trustworthy_list(@, item.uri),
                    !.cached = Append(@, item)]
    ELSE st

\* in REPORT mode every item gets its row in the report
item_report(st, item, mode, known, evaluated, sins) ==
    LET s3 == [st EXCEPT !.evaluated =
                              Append(@, [item |-> item, known |-> known,
                                         criteria |-> IF known THEN 0 ELSE evaluated,
                                         sins |-> sins])]
    IN  IF mode = "REPORT"
        THEN IF st.process_operation.report.defined
             THEN [s3 EXCEPT !.process_operation.report.rows =
                                  Append(@, <<item.uri, report_display(item.uri_display), sins>>)]
             ELSE [s3 EXCEPT !.thrown = "TypeError"]
        ELSE s3

\* the body of the for loop, for one item of the batch
process_item_emit(st, item, mode, reaction) ==
    LET known == item.uri \in Range(st.trustworthy_list)
        check == check_criteria(st.eligibility_criteria, item.uri_display, mode)
        sins == IF known THEN <<>> ELSE check.sins
    IN  IF item.uri_display.t = "undefined" /\ (~known \/ mode = "REPORT")
        THEN \* uri_display.length of undefined: in check_criteria for a URI the
             \* cache does not have, else in the display column of the row
             [st EXCEPT !.thrown = "TypeError"]
        ELSE item_report(
                 item_trust(item_emit(st, item, mode, reaction, known, sins),
                            item, known, sins),
                 item, mode, known, check.evaluated, sins)

\* the body of the for loop when no handler of 'matched-result' calls back
\* into the object
process_item(st, item, mode) == process_item_emit(st, item, mode, NoHandler)

RECURSIVE process_batch_emit(_, _, _, _)
process_batch_emit(st, items_batch, mode, reaction) ==
    IF items_batch = <<>> \/ st.thrown # "" THEN st
    ELSE process_batch_emit(process_item_emit(st, Head(items_batch), mode, reaction),
                            Tail(items_batch), mode, reaction)

process_batch(st, items_batch, mode) == process_batch_emit(st, items_batch, mode, NoHandler)

\* history: the items the tick has gone through are counted for its timer
count_processed(st, id) ==
    IF st.process_intervals[id].live
    THEN [st EXCEPT !.process_intervals[id].processed = @ + Len(st.evaluated)]
    ELSE st

\* a tick that never completes its operation
process_completion_never(st, mode, rest) == st

\* the completion test of the tick; rest: the list of the call after the splice
process_completion(st, mode, rest) ==
    IF st.thrown # "" \/ rest # <<>> THEN st
    ELSE LET c1 == finish_process_interval(st, st.process_operation.source)
             c2 == [c1 EXCEPT !.process_operation.source = NO_SOURCE]
         IN  call_process_controller(c2, st.process_operation.controller.resolve,
                                     IF mode = "REPORT"
                                     THEN Fulfilled(st.process_operation.report)
                                     ELSE Fulfilled(NoReport))

\* catch (error)
process_tick_catch(st) ==
    IF st.thrown = "" THEN st
    ELSE LET e1 == clear_process_interval(st, st.process_operation.source)
         IN  [e1 EXCEPT !.process_operation.source = NO_SOURCE,
                        !.thrown = "",
                        !.caught = st.thrown,
                        !.process_promises =
                            Settle(@, st.process_operation.controller.reject,
                                   Rejected(Err("Error", "Processing failed! Unknown error")))]

process_interval_cb_emit(st, id, reaction) ==
    LET items_infos == st.process_intervals[id].items_infos
        mode == st.process_intervals[id].mode
        n == Min(IF mode = "REPORT" THEN BATCH_SIZE ELSE 1, Len(items_infos))
        rest == SubSeq(items_infos, n + 1, Len(items_infos))
    IN  process_tick_catch(
            process_completion(
                count_processed(
                    \* items_infos.splice(0, n)
                    process_batch_emit([st EXCEPT !.process_intervals[id].items_infos = rest],
                                       SubSeq(items_infos, 1, n), mode, reaction),
                    id),
                mode, rest))

\* the callback when no handler of 'matched-result' calls back into the object
process_interval_cb(st, id) == process_interval_cb_emit(st, id, NoHandler)

(***************************************************************************)
(* The setInterval callback of set_criteria: one validation tick           *)
(***************************************************************************)
\* the catch block; error is what was thrown
criteria_tick_catch(st, error) ==
    LET wrapped == IF error.name \in {"SetCriteriaCancelledError", "CriteriaValidateError"}
                   THEN error
                   ELSE Err("Error", "Failed to set criteria: Unknown error.")
        s1 == call_criteria_controller(st, st.criteria_operation.controller.reject,
                                       Rejected(wrapped))
        s2 == clear_criteria_interval(s1, s1.criteria_operation.source)
    IN  [s2 EXCEPT !.criteria_operation.source = NO_SOURCE,
                   !.caught = error.name]

\* what a handler connected to notify::criteria does when the property is
\* notified: nothing, or, when it finds the live rule set non-empty, a call of
\* set_criteria
NoReaction == [kind |-> "none", criteria |-> [kind |-> "array", elems |-> <<>>]]
Reactions == {NoReaction} \cup
    {[kind |-> "set_criteria", criteria |-> c] : c \in {a \in CriteriaArgs : a.kind = "array"}}

\* this.notify('criteria'): the handlers run synchronously, inside the caller
notify_criteria(st, reaction) ==
    IF reaction.kind = "set_criteria" /\ st.eligibility_criteria # <<>>
    THEN [set_criteria(st, reaction.criteria) EXCEPT !.ret = ""]
    ELSE st

\* the publishing tick after the notification: the promise is resolved and the
\* timer cleared through the fields of criteria_operation
criteria_published(st) ==
    LET s2 == call_criteria_controller(st, st.criteria_operation.controller.resolve,
                                       Fulfilled(NoReport))
    IN  IF s2.thrown # ""
        THEN criteria_tick_catch([st EXCEPT !.thrown = ""],
                                 Err("TypeError", "resolve is not a function"))
        ELSE [clear_criteria_interval(s2, st.criteria_operation.source)
                 EXCEPT !.criteria_operation.source = NO_SOURCE]

criteria_interval_cb_notify(st, id, reaction) ==
    LET criteria == st.criteria_intervals[id].criteria
        compiled == st.criteria_intervals[id].compiled
        index == st.criteria_operation.current_index
    IN  IF criteria.kind = "nullish"
        THEN \* criteria.length of null / undefined
             criteria_tick_catch(st, Err("TypeError", "criteria is null"))
        ELSE IF index >= Len(criteria.elems)
        THEN \* the final pour: _eligibility_criteria.splice(0, Infinity)
             LET s0 == [st EXCEPT !.eligibility_criteria = compiled,
                                  !.criteria_intervals[id].compiled = <<>>]
             IN  criteria_published(IF compiled # <<>>
                                    THEN notify_criteria(s0, reaction) ELSE s0)
        ELSE LET result == compile_criterion(criteria.elems[index + 1])
             IN  IF result.ok
                 THEN [st EXCEPT !.criteria_intervals[id].compiled = Append(@, result.rule),
                                 !.criteria_operation.current_index = @ + 1]
                 ELSE criteria_tick_catch(st, result.error)

\* the callback when no handler of notify::criteria calls back into the object
criteria_interval_cb(st, id) == criteria_interval_cb_notify(st, id, NoReaction)

\* decommission that does not cancel the set_criteria operation in flight
decommission_forgets_criteria(st) ==
    LET s1 == process_abort(st, "Object is being decommissioned")
    IN  [s1 EXCEPT !.decommissioned = TRUE,
                   !.trustworthy_list = <<>>,
                   !.eligibility_criteria = <<>>,
                   !.process_operation = NoProcessOperation,
                   !.criteria_operation = NoCriteriaOperation,
                   !.ret = "undefined"]

(***************************************************************************)
(* decommission()                                                          *)
(***************************************************************************)
decommission(st) ==
    LET s1 == process_abort(st, "Object is being decommissioned")
        s2 == IF s1.criteria_operation.source # NO_SOURCE
              THEN LET a == clear_criteria_interval(s1, s1.criteria_operation.source)
                       b == [a EXCEPT !.criteria_operation.source = NO_SOURCE]
                   IN  call_criteria_controller(
                           b, b.criteria_operation.controller.reject,
                           Rejected(SetCriteriaCancelledError("Object is being decommissioned")))
              ELSE s1
    IN  \* the methods are replaced by throw_decommissioned, the fields set to undefined
        [s2 EXCEPT !.decommissioned = TRUE,
                   !.trustworthy_list = <<>>,
                   !.eligibility_criteria = <<>>,
                   !.process_operation = NoProcessOperation,
                   !.criteria_operation = NoCriteriaOperation,
                   !.ret = "undefined"]

\* what every replaced method, and the criteria getter, do after decommission()
throw_decommissioned(st) == [st EXCEPT !.thrown = "DecommissionedError"]

(***************************************************************************)
(* The public entry points.  decommission() replaces do_process,           *)
(* process_abort and set_criteria by throw_decommissioned and sets         *)
(* eligibility_criteria to undefined, which the getter checks.             *)
(***************************************************************************)
inspect_to_signals(st, items_info) ==
    IF st.decommissioned THEN throw_decommissioned(st)
    ELSE do_process(st, items_info, "LAZY")

inspect_to_report(st, items_info) ==
    IF st.decommissioned THEN throw_decommissioned(st)
    ELSE do_process(st, items_info, "REPORT")

public_set_criteria(st, criteria) ==
    IF st.decommissioned THEN throw_decommissioned(st)
    ELSE set_criteria(st, criteria)

public_process_abort(st, msg) ==
    IF st.decommissioned THEN throw_decommissioned(st)
    ELSE process_abort(st, msg)

get_criteria(st) ==
    IF st.decommissioned THEN throw_decommissioned(st)
    ELSE [st EXCEPT !.ret = "criteria"]

public_decommission(st) ==
    \* after decommission() the property holds DECOMMISSIONED (false), not a function
    IF st.decommissioned THEN [st EXCEPT !.thrown = "TypeError"]
    ELSE decommission(st)

(***************************************************************************)
(* Initial state and actions.                                              *)
(***************************************************************************)
Uris == {History[i].uri : i \in 1..Len(History)}

AbortMessages == {"test abort"}

ClassifyOps == {"inspect_to_signals", "inspect_to_report"}

InqInit ==
    /\ eligibility_criteria = <<>>
    /\ trustworthy_list = <<>>
    /\ process_operation = NoProcessOperation
    /\ criteria_operation = NoCriteriaOperation
    /\ decommissioned = FALSE
    /\ process_intervals = <<>>
    /\ criteria_intervals = <<>>
    /\ process_promises = <<>>
    /\ criteria_promises = <<>>
    /\ emitted = <<>>
    /\ cached_as = [u \in Uris |-> Null]
    /\ burst = [ids |-> <<>>, open |-> FALSE]
    /\ cache_before = <<>>

\* the state after a turn: st is what the turn made of This.  A call that
\* throws leaves the histories alone.
\* a cleared timer never runs again: the object holds no reference to the
\* array it was given, which from then on is the caller's alone
release_items_infos(intervals) ==
    [id \in DOMAIN intervals |->
        IF intervals[id].live THEN intervals[id]
        ELSE [intervals[id] EXCEPT !.items_infos = <<>>]]

Commit(result, turn) ==
    \E st \in {result} :
    LET op == IF Len(st.criteria_promises) > Len(criteria_promises)
              THEN "set_criteria" ELSE turn
    IN
    /\ UNCHANGED <<adapter_vars, compile_vars, delayed_vars, provider_vars>>
    /\ eligibility_criteria' = st.eligibility_criteria
    /\ trustworthy_list' = st.trustworthy_list
    /\ process_operation' = st.process_operation
    /\ criteria_operation' = st.criteria_operation
    /\ decommissioned' = st.decommissioned
    /\ process_intervals' = release_items_infos(st.process_intervals)
    /\ criteria_intervals' = st.criteria_intervals
    /\ process_promises' = st.process_promises
    /\ criteria_promises' = st.criteria_promises
    /\ emitted' = IF turn = "process_tick" THEN st.emitted ELSE emitted
    /\ cached_as' = [u \in Uris |->
                        IF u \notin Range(st.trustworthy_list) THEN Null
                        ELSE IF \E i \in 1..Len(st.cached) : st.cached[i].uri = u
                        THEN st.cached[CHOOSE i \in 1..Len(st.cached) :
                                           st.cached[i].uri = u].uri_display
                        ELSE cached_as[u]]
    /\ burst' = IF st.thrown # "" \/ op = "criteria" THEN burst
                ELSE IF op \in ClassifyOps
                THEN [ids |-> IF burst.open
                              THEN Append(burst.ids, Len(st.process_promises))
                              ELSE <<Len(st.process_promises)>>,
                      open |-> TRUE]
                ELSE IF op \in {"process_tick", "criteria_tick"}
                THEN [burst EXCEPT !.open = FALSE]
                ELSE IF op = "process_abort" /\ st.ret = "false" THEN burst
                ELSE [ids |-> <<>>, open |-> FALSE]
    /\ cache_before' = IF st.thrown # "" THEN cache_before
                       ELSE IF op = "set_criteria"
                       THEN Append(cache_before, trustworthy_list)
                       ELSE IF op = "decommission" THEN <<>>
                       ELSE cache_before

\* the operations started so far
Started == Len(process_promises) + Len(criteria_promises)

InspectToSignals ==
    /\ Started < MaxCalls
    /\ \E items_info \in ItemLists :
           Commit(inspect_to_signals(This, items_info), "inspect_to_signals")

InspectToReport ==
    /\ Started < MaxCalls
    /\ \E items_info \in ItemLists :
           Commit(inspect_to_report(This, items_info), "inspect_to_report")

SetCriteria ==
    /\ Started < MaxCalls
    /\ \E criteria \in CriteriaArgs :
           Commit(public_set_criteria(This, criteria), "set_criteria")

ProcessAbort ==
    \E msg \in AbortMessages :
        Commit(public_process_abort(This, msg), "process_abort")

GetCriteria == Commit(get_criteria(This), "criteria")

Decommission == Commit(public_decommission(This), "decommission")

\* the event loop runs the callback of a live classification timer
ProcessTick ==
    \E id \in DOMAIN process_intervals :
        /\ process_intervals[id].live
        /\ Commit(process_interval_cb(This, id), "process_tick")

\* the event loop runs the callback of a live validation timer
CriteriaTick ==
    \E id \in DOMAIN criteria_intervals :
        /\ criteria_intervals[id].live
        /\ Commit(criteria_interval_cb(This, id), "criteria_tick")

InqNext ==
    \/ InspectToSignals
    \/ InspectToReport
    \/ SetCriteria
    \/ ProcessAbort
    \/ GetCriteria
    \/ Decommission
    \/ ProcessTick
    \/ CriteriaTick

\* set_criteria as TypeScript callers can call it: with an Array
SetCriteriaArray ==
    /\ Started < MaxCalls
    /\ \E criteria \in {c \in CriteriaArgs : c.kind = "array"} :
           Commit(public_set_criteria(This, criteria), "set_criteria")

InqNextWellTyped ==
    \/ InspectToSignals
    \/ InspectToReport
    \/ SetCriteriaArray
    \/ ProcessAbort
    \/ GetCriteria
    \/ Decommission
    \/ ProcessTick
    \/ CriteriaTick

(***************************************************************************)
(* AsyncIntervalAdapter.  adapter_intervals[n] is the timer created by the *)
(* n-th start_new, adapter_promises[n] the Promise it returned; the        *)
(* resolve / reject wrappers of that call are named by n as well.  The     *)
(* callback given to the constructor is free: on a tick it may return,     *)
(* call resolve or call reject, and it may keep the wrappers it was handed *)
(* and call them at any later time (adapter_saved).                        *)
(***************************************************************************)
Adapter ==
    [ controller |-> adapter_controller,
      intervals |-> adapter_intervals,
      promises |-> adapter_promises ]

NoController == [source |-> NO_SOURCE, resolve |-> NO_CALLBACK, reject |-> NO_CALLBACK]

AdapterPending == [state |-> "pending", error |-> NoError, value |-> ""]
AdapterFulfilled(value) == [state |-> "fulfilled", error |-> NoError, value |-> value]
AdapterRejected(reason) == [state |-> "rejected", error |-> reason, value |-> ""]

\* source !== undefined && !source.is_destroyed()
is_running(st) ==
    /\ st.controller.source # NO_SOURCE
    /\ st.intervals[st.controller.source].live

\* a cleanup that forgets the timer without stopping it
cleanup_leaves_timer(st) ==
    IF is_running(st) THEN [st EXCEPT !.controller = NoController] ELSE st

\* it works on whatever process.controller holds when it is called
cleanup_current_process(st) ==
    IF is_running(st)
    THEN [st EXCEPT !.intervals[st.controller.source].live = FALSE,
                    !.controller = NoController]
    ELSE st

\* the wrappers start_new number id created: cleanup, then the native function
resolve_wrapper(st, id, value) ==
    LET s1 == cleanup_current_process(st)
    IN  [s1 EXCEPT !.promises = Settle(@, id, AdapterFulfilled(value))]

reject_wrapper(st, id, reason) ==
    LET s1 == cleanup_current_process(st)
    IN  [s1 EXCEPT !.promises = Settle(@, id, AdapterRejected(reason))]

abort(st, msg) ==
    IF is_running(st)
    THEN reject_wrapper(st, st.controller.reject, ProcessAbortError(msg))
    ELSE st

\* start_new() without arguments for the callback
NoArgs == <<>>

\* a start_new that leaves the operation in flight alone
start_new_keeps_previous(st, args) ==
    LET id == Len(st.promises) + 1
        s2 == [st EXCEPT !.promises = Append(@, AdapterPending),
                         !.controller.resolve = id,
                         !.controller.reject = id]
    IN  [s2 EXCEPT !.intervals = Append(@, [live |-> TRUE, items |-> args,
                                            given |-> args, results |-> <<>>]),
                   !.controller.source = id]

start_new(st, args) ==
    LET s1 == abort(st, "New process will be started")
        id == Len(s1.promises) + 1
        s2 == [s1 EXCEPT !.promises = Append(@, AdapterPending),
                         !.controller.resolve = id,
                         !.controller.reject = id]
    IN  [s2 EXCEPT !.intervals = Append(@, [live |-> TRUE, items |-> args,
                                            given |-> args, results |-> <<>>]),
                   !.controller.source = id]

AdapterInit ==
    /\ adapter_controller = NoController
    /\ adapter_intervals = <<>>
    /\ adapter_promises = <<>>
    /\ adapter_saved = {}

AdapterCommit(st, saved) ==
    /\ UNCHANGED <<inq_vars, compile_vars, delayed_vars, provider_vars>>
    /\ adapter_controller' = st.controller
    /\ adapter_intervals' = st.intervals
    /\ adapter_promises' = st.promises
    /\ adapter_saved' = saved

StartNew ==
    /\ Len(adapter_promises) < MaxStarts
    /\ AdapterCommit(start_new(Adapter, NoArgs), adapter_saved)

Abort == \E msg \in AbortMessages : AdapterCommit(abort(Adapter, msg), adapter_saved)

\* the event loop runs the callback of a live timer with the wrappers bound
\* to that timer; the callback keeps them and returns, resolves or rejects
AdapterTick ==
    \E id \in DOMAIN adapter_intervals :
        /\ adapter_intervals[id].live
        /\ \/ AdapterCommit(Adapter, adapter_saved \cup {id})
           \/ AdapterCommit(resolve_wrapper(Adapter, id, "done"), adapter_saved \cup {id})
           \/ AdapterCommit(reject_wrapper(Adapter, id, Err("Error", "work failed")),
                            adapter_saved \cup {id})

\* code that kept the wrappers of a call invokes them, at any time
CallSavedResolve ==
    \E id \in adapter_saved :
        AdapterCommit(resolve_wrapper(Adapter, id, "should be ignored"), adapter_saved)

CallSavedReject ==
    \E id \in adapter_saved :
        AdapterCommit(reject_wrapper(Adapter, id, Err("Error", "should also be ignored")),
                      adapter_saved)

AdapterNext ==
    \/ StartNew
    \/ Abort
    \/ AdapterTick
    \/ CallSavedResolve
    \/ CallSavedReject

(***************************************************************************)
(* An adapter whose callback consumes a list, one element per tick: the    *)
(* callback of the test on mutable arguments.  The list is the array the   *)
(* caller passed to start_new; every tick gets the same array.             *)
(***************************************************************************)
ListArgs == { <<>>, <<1, 2, 3>>, <<2, 2>> }
Pushed == 9
Malicious == 666

\* a callback that works on a copy of the list: what it removes is not seen
\* by the next tick
shift_callback_on_copy(st, id) ==
    IF st.intervals[id].items = <<>>
    THEN resolve_wrapper(st, id, "done")
    ELSE [st EXCEPT !.intervals[id].results = Append(@, Head(st.intervals[id].items))]

\* (resolve, reject, items) => { ... }: resolve on an empty list, else shift
\* one element, record it and, if it is 2, append 666 to the list
shift_callback(st, id) ==
    IF st.intervals[id].items = <<>>
    THEN resolve_wrapper(st, id, "done")
    ELSE LET item == Head(st.intervals[id].items)
             rest == Tail(st.intervals[id].items)
         IN  IF item = 2
             THEN [st EXCEPT !.intervals[id].items = Append(rest, Malicious),
                             !.intervals[id].given = Append(@, Malicious),
                             !.intervals[id].results = Append(@, item)]
             ELSE [st EXCEPT !.intervals[id].items = rest,
                             !.intervals[id].results = Append(@, item)]

\* the caller appends an element to the array it passed
push_item(st, id) ==
    [st EXCEPT !.intervals[id].items = Append(@, Pushed),
               !.intervals[id].given = Append(@, Pushed)]

StartNewList ==
    /\ Len(adapter_promises) < MaxLists
    /\ \E args \in ListArgs : AdapterCommit(start_new(Adapter, args), adapter_saved)

\* the event loop runs the callback of a live timer
ShiftTick ==
    \E id \in DOMAIN adapter_intervals :
        /\ adapter_intervals[id].live
        /\ AdapterCommit(shift_callback(Adapter, id), adapter_saved)

PushItem ==
    \E id \in DOMAIN adapter_intervals :
        /\ adapter_intervals[id].live
        /\ Cardinality({k \in 1..Len(adapter_intervals[id].given) :
                            adapter_intervals[id].given[k] = Pushed}) < MaxPushes
        /\ AdapterCommit(push_item(Adapter, id), adapter_saved)

AdapterListNext ==
    \/ StartNewList
    \/ Abort
    \/ ShiftTick
    \/ PushItem

(***************************************************************************)
(* The validation and compilation of one criterion, on its own.            *)
(***************************************************************************)
NotCompiled == [ok |-> FALSE, error |-> NoError]

CompileIdle ==
    /\ criterion_arg = NotAnObject
    /\ criterion_compiled = NotCompiled

\* the validation step of a set_criteria tick, applied to criterion_arg
CompileCriterion ==
    /\ criterion_compiled = NotCompiled
    /\ criterion_compiled' = compile_criterion(criterion_arg)
    /\ UNCHANGED <<criterion_arg, inq_vars, adapter_vars, delayed_vars, provider_vars>>

(***************************************************************************)
(* RecentFilesProvider.  The monitoring state is computed from the request *)
(* flag and the system setting; notify('state') runs state_changed_cb      *)
(* synchronously.  rfp_promises[n] is the Promise of the n-th remove_item  *)
(* call; a queue entry holds the URI and the resolve/reject of its call,   *)
(* named by n.  Handlers of 'history-changes-settled' run synchronously    *)
(* inside emit; a reaction is what such a handler does.                    *)
(***************************************************************************)
ProviderUris == {"f", "g"}

SettledReactions == {"none", "request_monitoring", "withdraw_monitoring"}

Provider ==
    [ monitoring_requested |-> rfp_requested,
      enabled |-> rfp_enabled,
      previous_state |-> rfp_previous_state,
      recent_manager |-> rfp_handler,
      connected |-> rfp_connected,
      source |-> rfp_source,
      remove_queue |-> rfp_queue,
      promises |-> rfp_promises,
      history |-> rfp_history,
      decommissioned |-> rfp_decommissioned,
      thrown |-> "" ]

\* the state getter
get_state(st) ==
    IF ~st.monitoring_requested THEN "INACTIVE"
    ELSE IF st.enabled THEN "ACTIVE"
    ELSE "PENDING"

\* the handler is disconnected and forgotten; the debounced signal is cancelled
ensure_monitoring_inactive(st) ==
    IF st.recent_manager > NO_HANDLER
    THEN [st EXCEPT !.connected = IF @ > 0 THEN @ - 1 ELSE @,
                    !.recent_manager = NO_HANDLER]
    ELSE st

RECURSIVE set_monitoring_requested(_, _, _)

\* history_changed_cb: emit('history-changes-settled') runs the handlers
history_changed_cb(st, reaction) ==
    CASE reaction = "request_monitoring" -> set_monitoring_requested(st, TRUE, reaction)
      [] reaction = "withdraw_monitoring" -> set_monitoring_requested(st, FALSE, reaction)
      [] OTHER -> st

\* the handler of 'changed' is connected if none is; delayed_signal.emitter
\* .invoke() then emits 'occurred' at once, which runs history_changed_cb
ensure_monitoring_active(st, reaction) ==
    history_changed_cb(IF st.recent_manager = NO_HANDLER
                       THEN [st EXCEPT !.recent_manager = 1, !.connected = @ + 1]
                       ELSE st,
                       reaction)

\* the handler of notify::state
state_changed_cb(st, reaction) ==
    IF st.previous_state = get_state(st) THEN st
    ELSE LET r == IF get_state(st) = "ACTIVE"
                  THEN ensure_monitoring_active(st, reaction)
                  ELSE IF st.previous_state = "ACTIVE"
                  THEN ensure_monitoring_inactive(st)
                  ELSE st
         IN  [r EXCEPT !.previous_state = get_state(r)]

set_monitoring_requested(st, value, reaction) ==
    IF st.monitoring_requested # value
    THEN state_changed_cb([st EXCEPT !.monitoring_requested = value], reaction)
    ELSE st

\* a cleanup that empties the queue and leaves its promises alone
queue_cleanup_forgets(st, msg) == [st EXCEPT !.remove_queue = <<>>]

\* every waiting request is rejected with QueueCleanupError, the queue replaced
queue_cleanup(st, msg) ==
    IF Len(st.remove_queue) > 0
    THEN [st EXCEPT
             !.promises =
                 [id \in DOMAIN st.promises |->
                     IF \E k \in 1..Len(st.remove_queue) : st.remove_queue[k].controller = id
                     THEN Settle(st.promises, id, Rejected(Err("QueueCleanupError", msg)))[id]
                     ELSE st.promises[id]],
             !.remove_queue = <<>>]
    ELSE st

handle_history_disabled(st) ==
    queue_cleanup([st EXCEPT !.source = FALSE], "Recent history is now disabled")

\* the handler of notify::gtk-recent-files-enabled, run when the setting changes
settings_changed_cb(st, reaction) ==
    state_changed_cb(IF ~st.enabled THEN handle_history_disabled(st) ELSE st, reaction)

\* the Promise executor of remove_item; id is the promise being constructed
remove_item(st, uri) ==
    LET id == Len(st.promises) + 1
        s1 == [st EXCEPT !.promises = Append(@, Pending)]
    IN  IF ~st.enabled
        THEN [s1 EXCEPT !.promises = Settle(@, id, Rejected(Err("HistoryDisabledError",
                            "Recent history is now disabled, history file is empty")))]
        ELSE IF uri = "" \/ uri \notin st.history
        THEN [s1 EXCEPT !.promises = Settle(@, id, Rejected(Err("InvalidUriError",
                            "Gets non-existent or empty item")))]
        ELSE IF \E k \in 1..Len(st.remove_queue) : st.remove_queue[k].uri = uri
        THEN [s1 EXCEPT !.promises = Settle(@, id, Rejected(Err("DuplicateUriError",
                            "Item already in queue")))]
        ELSE [s1 EXCEPT !.remove_queue = Append(@, [uri |-> uri, controller |-> id]),
                        !.source = TRUE]

\* the setInterval callback of remove_item: the first entry is taken off the
\* queue and removed from the history, which throws if it is not there
remove_interval_cb(st) ==
    LET entry == Head(st.remove_queue)
        s1 == [st EXCEPT !.remove_queue = Tail(@)]
        s2 == IF entry.uri \in st.history
              THEN [s1 EXCEPT !.history = @ \ {entry.uri},
                              !.promises = Settle(@, entry.controller, Fulfilled(NoReport))]
              ELSE [s1 EXCEPT !.promises = Settle(@, entry.controller,
                                                  Rejected(Err("GLib.Error", "not found")))]
    IN  IF Len(s2.remove_queue) > 0 THEN s2 ELSE [s2 EXCEPT !.source = FALSE]

\* decommission(): the signals are disconnected, the timer cleared, the queue
\* cleaned up, the methods replaced and the fields set to undefined
provider_decommission(st) ==
    LET s1 == queue_cleanup([st EXCEPT !.connected = 0, !.source = FALSE],
                            "Provider will be decommissioned")
    IN  [s1 EXCEPT !.decommissioned = TRUE, !.recent_manager = NO_HANDLER]

\* the public methods; decommission() replaces them by throw_decommissioned
request_monitoring(st, reaction) ==
    IF st.decommissioned THEN [st EXCEPT !.thrown = "DecommissionedError"]
    ELSE set_monitoring_requested(st, TRUE, reaction)

withdraw_monitoring(st, reaction) ==
    IF st.decommissioned THEN [st EXCEPT !.thrown = "DecommissionedError"]
    ELSE set_monitoring_requested(st, FALSE, reaction)

public_remove_item(st, uri) ==
    IF st.decommissioned THEN [st EXCEPT !.thrown = "DecommissionedError"]
    ELSE remove_item(st, uri)

public_provider_decommission(st) ==
    IF st.decommissioned THEN [st EXCEPT !.thrown = "DecommissionedError"]
    ELSE provider_decommission(st)

\* before the constructor has run
ProviderIdle ==
    /\ rfp_requested = FALSE
    /\ rfp_enabled = FALSE
    /\ rfp_previous_state = "INACTIVE"
    /\ rfp_handler = NO_HANDLER
    /\ rfp_connected = 0
    /\ rfp_source = FALSE
    /\ rfp_queue = <<>>
    /\ rfp_promises = <<>>
    /\ rfp_history = {}
    /\ rfp_decommissioned = FALSE

ProviderCommit(result) ==
    \E st \in {result} :
        /\ UNCHANGED <<inq_vars, adapter_vars, compile_vars, delayed_vars>>
        /\ rfp_requested' = st.monitoring_requested
        /\ rfp_enabled' = st.enabled
        /\ rfp_previous_state' = st.previous_state
        /\ rfp_handler' = st.recent_manager
        /\ rfp_connected' = st.connected
        /\ rfp_source' = st.source
        /\ rfp_queue' = st.remove_queue
        /\ rfp_promises' = st.promises
        /\ rfp_history' = st.history
        /\ rfp_decommissioned' = st.decommissioned

RequestMonitoring ==
    \E reaction \in SettledReactions : ProviderCommit(request_monitoring(Provider, reaction))

WithdrawMonitoring ==
    \E reaction \in SettledReactions : ProviderCommit(withdraw_monitoring(Provider, reaction))

\* the user switches the recent-files history on or off; the handler the
\* provider connected runs unless decommission() has disconnected it
SettingsChanged ==
    \E reaction \in SettledReactions :
        ProviderCommit(IF rfp_decommissioned
                       THEN [Provider EXCEPT !.enabled = ~@]
                       ELSE settings_changed_cb([Provider EXCEPT !.enabled = ~@], reaction))

RemoveItem ==
    /\ Len(rfp_promises) < MaxRemovals
    /\ \E uri \in ProviderUris \cup {""} : ProviderCommit(public_remove_item(Provider, uri))

\* the event loop runs the callback of the armed removal timer
RemoveTick ==
    /\ rfp_source
    /\ ProviderCommit(remove_interval_cb(Provider))

\* another program adds an entry to the history or removes one
HistoryChanges ==
    \E uri \in ProviderUris :
        ProviderCommit([Provider EXCEPT !.history =
                            IF uri \in @ THEN @ \ {uri} ELSE @ \cup {uri}])

ProviderDecommission == ProviderCommit(public_provider_decommission(Provider))

ProviderNext ==
    \/ RequestMonitoring
    \/ WithdrawMonitoring
    \/ SettingsChanged
    \/ RemoveItem
    \/ RemoveTick
    \/ HistoryChanges
    \/ ProviderDecommission

(***************************************************************************)
(* DelayedSignal: a debounced emitter of 'scheduled', 'occurred' and       *)
(* 'canceled'.  ds_timeouts[n] is the n-th timeout created by setTimeout.  *)
(* Handlers run synchronously inside emit; a listener is a handler of one  *)
(* signal that calls one method of the object, once.                       *)
(***************************************************************************)
Delays == {1, 2}
Signals == {"scheduled", "occurred", "canceled"}
Methods == {"pending_invoke", "invoke", "flush", "cancel", "decommission"}

NoListener == [on |-> "", call |-> ""]
Listeners == {NoListener} \cup {[on |-> signal, call |-> m] : signal \in Signals, m \in Methods}

Delayed ==
    [ timer |-> ds_timer, timeouts |-> ds_timeouts, delay |-> ds_delay,
      decommissioned |-> ds_decommissioned, emitted |-> ds_emitted, now |-> ds_now,
      thrown |-> "", ret |-> "", value |-> 0 ]

\* function throw_decommissioned(): never
delayed_throw_decommissioned(st) == [st EXCEPT !.thrown = "DecommissionedError"]

\* this.timer = setTimeout(() => {...}, this.delay); an undefined delay is 0
set_timeout(st) ==
    [st EXCEPT !.timeouts = Append(@, [live |-> TRUE, due |-> st.now + st.delay]),
               !.timer = Len(st.timeouts) + 1]

\* clearTimeout(this.timer)
clear_timeout(st) ==
    IF st.timer \in DOMAIN st.timeouts
    THEN [st EXCEPT !.timeouts[st.timer].live = FALSE]
    ELSE st

\* clearTimeout(this.timer); this.timer = null
clear_timer(st) == [clear_timeout(st) EXCEPT !.timer = NO_TIMER]

RECURSIVE pending_invoke(_, _), invoke(_, _), flush(_, _), cancel(_, _)
RECURSIVE delayed_decommission(_, _)

\* the handler of a listener, run for the signal it is connected to
listen(st, signal, listener) ==
    IF listener.on # signal THEN st
    ELSE CASE listener.call = "pending_invoke" -> pending_invoke(st, NoListener)
           [] listener.call = "invoke" -> invoke(st, NoListener)
           [] listener.call = "flush" -> flush(st, NoListener)
           [] listener.call = "cancel" -> cancel(st, NoListener)
           [] listener.call = "decommission" -> delayed_decommission(st, NoListener)
           [] OTHER -> st

\* this.emit(signal): the handlers run before emit returns
emit(st, signal, listener) ==
    IF st.decommissioned THEN delayed_throw_decommissioned(st)
    ELSE listen([st EXCEPT !.emitted = Append(@, signal)], signal, listener)

pending_invoke(st, listener) ==
    IF st.decommissioned THEN delayed_throw_decommissioned(st)
    ELSE set_timeout(IF st.timer # NO_TIMER
                     THEN clear_timeout(st)
                     ELSE emit(st, "scheduled", listener))

invoke(st, listener) ==
    IF st.decommissioned THEN delayed_throw_decommissioned(st)
    ELSE emit(IF st.timer # NO_TIMER THEN clear_timer(st) ELSE st, "occurred", listener)

flush(st, listener) ==
    IF st.decommissioned THEN delayed_throw_decommissioned(st)
    ELSE IF st.timer # NO_TIMER THEN emit(clear_timer(st), "occurred", listener)
    ELSE st

cancel(st, listener) ==
    IF st.decommissioned THEN delayed_throw_decommissioned(st)
    ELSE IF st.timer # NO_TIMER THEN emit(clear_timer(st), "canceled", listener)
    ELSE st

\* decommission(): cancel, then the methods are replaced and the fields set
\* to undefined; decommission itself becomes DECOMMISSIONED, which is false
delayed_decommission(st, listener) ==
    IF st.decommissioned THEN [st EXCEPT !.thrown = "TypeError"]
    ELSE [cancel(st, listener) EXCEPT !.decommissioned = TRUE, !.timer = NO_TIMER,
                                      !.delay = 0, !.thrown = ""]

\* is_pending()
is_pending(st) ==
    IF st.decommissioned THEN delayed_throw_decommissioned(st)
    ELSE [st EXCEPT !.ret = IF st.timer # NO_TIMER THEN "true" ELSE "false"]

\* get debounce_delay()
debounce_delay(st) ==
    IF st.delay = 0 THEN delayed_throw_decommissioned(st)
    ELSE [st EXCEPT !.value = st.delay]

\* the callback given to setTimeout, run when timeout id is due
timeout_cb(st, id, listener) ==
    emit([st EXCEPT !.timeouts[id].live = FALSE, !.timer = NO_TIMER], "occurred", listener)

DelayedIdle ==
    /\ ds_timer = NO_TIMER
    /\ ds_timeouts = <<>>
    /\ ds_delay = 1
    /\ ds_decommissioned = FALSE
    /\ ds_emitted = <<>>
    /\ ds_now = 0

\* new DelayedSignal(delay), delay a positive integer
DelayedInit ==
    /\ InqInit /\ AdapterInit /\ CompileIdle /\ ProviderIdle
    /\ ds_timer = NO_TIMER
    /\ ds_timeouts = <<>>
    /\ ds_delay \in Delays
    /\ ds_decommissioned = FALSE
    /\ ds_emitted = <<>>
    /\ ds_now = 0

DelayedCommit(result) ==
    \E st \in {result} :
        /\ UNCHANGED <<inq_vars, adapter_vars, compile_vars, provider_vars>>
        /\ ds_timer' = st.timer
        /\ ds_timeouts' = st.timeouts
        /\ ds_delay' = st.delay
        /\ ds_decommissioned' = st.decommissioned
        /\ ds_emitted' = st.emitted
        /\ ds_now' = st.now

\* a handler that arms a timer or invokes is connected only while the
\* behaviour has room for what it does
Within(listener) ==
    /\ listener.call = "pending_invoke" => Len(ds_timeouts) + 1 < MaxArms
    /\ listener.call = "invoke" => Len(ds_emitted) + 1 < MaxSignals

PendingInvoke(listeners) ==
    /\ Len(ds_timeouts) < MaxArms
    /\ \E listener \in listeners :
           Within(listener) /\ DelayedCommit(pending_invoke(Delayed, listener))

Invoke(listeners) ==
    /\ Len(ds_emitted) < MaxSignals
    /\ \E listener \in listeners :
           Within(listener) /\ DelayedCommit(invoke(Delayed, listener))

Flush(listeners) ==
    \E listener \in listeners : Within(listener) /\ DelayedCommit(flush(Delayed, listener))

Cancel(listeners) ==
    \E listener \in listeners : Within(listener) /\ DelayedCommit(cancel(Delayed, listener))

DelayedDecommission(listeners) ==
    \E listener \in listeners :
        Within(listener) /\ DelayedCommit(delayed_decommission(Delayed, listener))

\* the event loop runs the callback of a timeout that is due
TimeoutFires(listeners) ==
    \E id \in DOMAIN ds_timeouts, listener \in listeners :
        /\ ds_timeouts[id].live
        /\ ds_timeouts[id].due <= ds_now
        /\ Within(listener)
        /\ DelayedCommit(timeout_cb(Delayed, id, listener))

\* time passes while no timeout is due
TimePasses ==
    /\ ds_now < MaxTime
    /\ \A id \in DOMAIN ds_timeouts : ds_timeouts[id].live => ds_timeouts[id].due > ds_now
    /\ DelayedCommit([Delayed EXCEPT !.now = ds_now + 1])

DelayedNext ==
    \/ PendingInvoke({NoListener})
    \/ Invoke({NoListener})
    \/ Flush({NoListener})
    \/ Cancel({NoListener})
    \/ DelayedDecommission({NoListener})
    \/ TimeoutFires({NoListener})
    \/ TimePasses

DelayedListenNext ==
    \/ PendingInvoke(Listeners)
    \/ Invoke(Listeners)
    \/ Flush(Listeners)
    \/ Cancel(Listeners)
    \/ DelayedDecommission(Listeners)
    \/ TimeoutFires(Listeners)
    \/ TimePasses

(***************************************************************************)
(* Specifications.                                                         *)
(***************************************************************************)
vars == <<inq_vars, adapter_vars, compile_vars, delayed_vars, provider_vars>>

Init == InqInit /\ AdapterInit /\ CompileIdle /\ DelayedIdle /\ ProviderIdle

CompileInit ==
    /\ InqInit /\ AdapterInit /\ DelayedIdle /\ ProviderIdle
    /\ criterion_arg \in CriterionValues
    /\ criterion_compiled = NotCompiled

\* the validation step applied to any criterion a caller can pass
CompileSpec == CompileInit /\ [][CompileCriterion]_vars

Next == InqNext

\* the Inquisitor driven by any caller
Spec == Init /\ [][Next]_vars

\* the same under the scheduling of setInterval: a timer that stays armed has
\* its callback run again.  This is weak fairness of ProcessTick and of
\* CriteriaTick, with "enabled" written out: a tick is enabled exactly when
\* a timer of its kind is armed.
FairSpec ==
    /\ Spec
    /\ \/ []<>(\A id \in DOMAIN process_intervals : ~process_intervals[id].live)
       \/ []<><<ProcessTick>>_vars
    /\ \/ []<>(\A id \in DOMAIN criteria_intervals : ~criteria_intervals[id].live)
       \/ []<><<CriteriaTick>>_vars

\* the Inquisitor driven by a caller that honours the TypeScript signatures
WellTypedSpec == Init /\ [][InqNextWellTyped]_vars

\* the callback of a live validation timer, with a handler of notify::criteria
\* that reacts to a non-empty rule set by calling set_criteria
CriteriaTickNotify ==
    /\ Started < MaxCalls
    /\ \E id \in DOMAIN criteria_intervals, reaction \in Reactions \ {NoReaction} :
           /\ criteria_intervals[id].live
           /\ Commit(criteria_interval_cb_notify(This, id, reaction), "criteria_tick")

InqNextNotify ==
    \/ InqNextWellTyped
    \/ CriteriaTickNotify

\* the callback of a live classification timer in LAZY mode, with a handler
\* of 'matched-result' that calls a public method
ProcessTickEmit ==
    /\ Started < MaxCalls
    /\ \E id \in DOMAIN process_intervals, reaction \in Handlers \ {NoHandler} :
           /\ process_intervals[id].live
           /\ process_intervals[id].mode = "LAZY"
           /\ Commit(process_interval_cb_emit(This, id, reaction), "process_tick")

InqNextEmit ==
    \/ InqNextWellTyped
    \/ ProcessTickEmit

\* the Inquisitor with a handler connected to 'matched-result' that may call
\* inspect_to_signals, inspect_to_report, set_criteria or process_abort
EmitSpec == Init /\ [][InqNextEmit]_vars

\* a classification of a list with a malformed tuple
InspectFaulty ==
    /\ Started < MaxCalls
    /\ \/ Commit(inspect_to_signals(This, FaultyItems), "inspect_to_signals")
       \/ Commit(inspect_to_report(This, FaultyItems), "inspect_to_report")

\* set_criteria with a criterion whose label accessor throws
SetCriteriaFaulty ==
    /\ Started < MaxCalls
    /\ Commit(public_set_criteria(This, FaultyCriteria), "set_criteria")

InqNextFault ==
    \/ InqNext
    \/ InspectFaulty
    \/ SetCriteriaFaulty

\* the Inquisitor with callers that also pass a malformed item or a criterion
\* that throws when read
FaultSpec == Init /\ [][InqNextFault]_vars

\* the Inquisitor with a handler connected to notify::criteria that may call
\* set_criteria
NotifySpec == Init /\ [][InqNextNotify]_vars

\* a DelayedSignal whose handlers do not call back into it
DelayedSpec == DelayedInit /\ [][DelayedNext]_vars

\* a DelayedSignal with a handler that may call one of its methods
DelayedListenSpec == DelayedInit /\ [][DelayedListenNext]_vars

\* an AsyncIntervalAdapter whose callback consumes the list passed to start_new
AdapterListSpec == Init /\ [][AdapterListNext]_vars

\* new RecentFilesProvider() with the history switched on or off and any
\* entries in it
ProviderInit ==
    /\ InqInit /\ AdapterInit /\ CompileIdle /\ DelayedIdle
    /\ rfp_requested = FALSE
    /\ rfp_enabled \in BOOLEAN
    /\ rfp_previous_state = "INACTIVE"
    /\ rfp_handler = NO_HANDLER
    /\ rfp_connected = 0
    /\ rfp_source = FALSE
    /\ rfp_queue = <<>>
    /\ rfp_promises = <<>>
    /\ rfp_history \in SUBSET ProviderUris
    /\ rfp_decommissioned = FALSE

\* a RecentFilesProvider driven by any caller, by the system setting, by
\* other programs writing the history and by handlers of
\* 'history-changes-settled' that call request_monitoring or withdraw_monitoring
ProviderSpec == ProviderInit /\ [][ProviderNext]_vars

\* an AsyncIntervalAdapter driven by any caller and any callback
AdapterSpec == Init /\ [][AdapterNext]_vars

(***************************************************************************)
(* Properties of the Inquisitor.                                           *)
(***************************************************************************)
PendingProcess == {id \in DOMAIN process_promises : process_promises[id].state = "pending"}
PendingCriteria == {id \in DOMAIN criteria_promises : criteria_promises[id].state = "pending"}
LiveProcessTimers == {id \in DOMAIN process_intervals : process_intervals[id].live}
LiveCriteriaTimers == {id \in DOMAIN criteria_intervals : criteria_intervals[id].live}

\* st with the transient fields of a turn blanked: the object, timers and promises
Persistent(st) ==
    [st EXCEPT !.emitted = <<>>, !.evaluated = <<>>, !.cached = <<>>,
               !.ret = "", !.thrown = "", !.caught = ""]

\* C1: of classification calls issued back to back with no tick in between,
\* every call but the last has its promise rejected with ProcessAbortError
\* 'New process will be initiated' and has no timer; the last one is never
\* rejected: it is the operation in flight, pending with its timer armed,
\* until it is fulfilled.
C1_LastOfBurstWins ==
    burst.ids # <<>> =>
        LET n == Len(burst.ids)
            final == burst.ids[n]
        IN  /\ \A i \in 1..(n - 1) :
                   /\ process_promises[burst.ids[i]] =
                          Rejected(ProcessAbortError("New process will be initiated"))
                   /\ ~process_intervals[burst.ids[i]].live
            /\ process_promises[final].state \in {"pending", "fulfilled"}
            /\ process_promises[final].state = "pending" =>
                   /\ process_intervals[final].live
                   /\ process_operation.source = final
                   /\ process_operation.controller.resolve = final
            /\ process_promises[final].state = "fulfilled" =>
                   ~process_intervals[final].live
            \* every tick of the last call ends it or consumes some of its items
            /\ process_promises[final].state = "pending" =>
                   LET r == process_interval_cb(This, final)
                   IN  \/ r.process_promises[final].state = "fulfilled"
                       \/ /\ r.process_promises[final].state = "pending"
                          /\ Len(r.process_intervals[final].items_infos)
                                 < Len(process_intervals[final].items_infos)

\* three calls back to back, the last one fulfilled
C1_Witness ==
    /\ Len(burst.ids) = 3
    /\ process_promises[burst.ids[3]].state = "fulfilled"
    /\ process_promises[burst.ids[1]].state = "rejected"

\* the in-order compilation of all of a call's specs, when all are valid
RECURSIVE compile_all(_)
compile_all(elems) ==
    IF elems = <<>> THEN [ok |-> TRUE, rules |-> <<>>]
    ELSE LET first == compile_criterion(Head(elems))
             rest == compile_all(Tail(elems))
         IN  IF first.ok /\ rest.ok
             THEN [ok |-> TRUE, rules |-> <<first.rule>> \o rest.rules]
             ELSE [ok |-> FALSE, rules |-> <<>>]

\* C2: the live rule set is empty or the complete in-order compilation of
\* the specs of one set_criteria call whose promise is fulfilled.
C2_RuleSetEmptyOrValidated ==
    \/ eligibility_criteria = <<>>
    \/ \E id \in DOMAIN criteria_promises :
           /\ criteria_promises[id].state = "fulfilled"
           /\ compile_all(criteria_intervals[id].criteria.elems).ok
           /\ eligibility_criteria = compile_all(criteria_intervals[id].criteria.elems).rules

\* C3: every key in the cache belongs to an item that has a display name
\* which matches no rule of the live rule set.
C3_CacheNeverStale ==
    \A u \in Range(trustworthy_list) :
        /\ cached_as[u].t = "string"
        /\ cached_as[u].v # <<>>
        /\ all_sins(eligibility_criteria, cached_as[u].v) = <<>>

\* what one tick of classification timer id does to the items of its batch
\* that have no display name (null or empty); skip_known leaves out the items
\* whose key is in the cache when their turn comes.  Each such item gets
\* exactly the lint match, one 'matched-result' in LAZY mode (a batch of one
\* item) or its report row with sins = [lint] in REPORT mode, and get_sin
\* is called on no criterion for it.
lint_verdicts(id, skip_known) ==
    LET r == process_interval_cb(This, id)
        mode == process_intervals[id].mode
        rows == Len(process_operation.report.rows)
    IN  \A k \in 1..Len(r.evaluated) :
            LET e == r.evaluated[k]
                display == e.item.uri_display
            IN  ((display.t = "null" \/ display.v = <<>>) /\ ~(skip_known /\ e.known)) =>
                    /\ e.criteria = 0
                    /\ mode = "LAZY" =>
                           r.emitted = << <<e.item.uri, <<"lint", LintLabel>> >> >>
                    /\ mode = "REPORT" =>
                           /\ rows + k <= Len(r.process_operation.report.rows)
                           /\ r.process_operation.report.rows[rows + k][1] = e.item.uri
                           /\ r.process_operation.report.rows[rows + k][3] =
                                  << <<"lint", LintLabel>> >>

C5_CacheBound == Len(trustworthy_list) <= MAX_CACHE_SIZE

\* C6: the tick that fulfils a set_criteria call leaves in the cache no key
\* that was in the cache immediately before that call.
C6_CacheInvalidatedOnSuccess ==
    \A id \in LiveCriteriaTimers :
        LET r == criteria_interval_cb(This, id)
        IN  (criteria_promises[id].state = "pending"
                /\ r.criteria_promises[id].state = "fulfilled") =>
                Range(cache_before[id]) \cap Range(r.trustworthy_list) = {}

\* C7: process_abort(msg) returns true exactly when a classification is in
\* flight; it then leaves no classification timer armed and that
\* classification's promise rejected with ProcessAbortError(msg), and touches
\* nothing else; otherwise it returns false and changes no state.  A
\* classification whose promise is settled has no armed timer, so none of
\* its ticks can run.
C7_Abort ==
    /\ \A id \in DOMAIN process_promises :
           process_promises[id].state # "pending" => ~process_intervals[id].live
    /\ ~decommissioned =>
           \A msg \in AbortMessages \cup {"Process aborted"} :
               LET r == public_process_abort(This, msg)
               IN  IF PendingProcess # {}
                   THEN /\ r.ret = "true"
                        /\ r.thrown = ""
                        /\ \A id \in DOMAIN process_promises :
                               r.process_promises[id] =
                                   IF id \in PendingProcess
                                   THEN Rejected(ProcessAbortError(msg))
                                   ELSE process_promises[id]
                        /\ \A id \in DOMAIN r.process_intervals :
                               ~r.process_intervals[id].live
                        /\ r.emitted = <<>>
                        /\ r.eligibility_criteria = eligibility_criteria
                        /\ r.trustworthy_list = trustworthy_list
                        /\ r.criteria_operation = criteria_operation
                        /\ r.criteria_intervals = criteria_intervals
                        /\ r.criteria_promises = criteria_promises
                   ELSE /\ r.ret = "false"
                        /\ Persistent(r) = This

\* process_abort('test abort') has stopped a classification
C7_Witness ==
    \E id \in DOMAIN process_promises :
        /\ process_promises[id] = Rejected(ProcessAbortError("test abort"))
        /\ ~process_intervals[id].live
        /\ process_operation.source = NO_SOURCE

\* C8: invoking the saved resolve / reject wrapper of a start_new call whose
\* promise is already settled changes nothing: no promise, no timer and
\* nothing of the controller.
C8_IdempotentCompletion ==
    \A id \in adapter_saved :
        adapter_promises[id].state # "pending" =>
            /\ resolve_wrapper(Adapter, id, "should be ignored") = Adapter
            /\ reject_wrapper(Adapter, id, Err("Error", "should also be ignored")) = Adapter

C10_EmptyAfterValidationFailure ==
    \A id \in DOMAIN criteria_promises :
        (/\ criteria_promises[id].state = "rejected"
         /\ criteria_promises[id].error.name = "CriteriaValidateError"
         /\ \A later \in (id + 1)..Len(criteria_promises) :
                criteria_promises[later].state # "fulfilled") =>
            eligibility_criteria = <<>>

C12_FulfilledMeansPublished ==
    (~decommissioned /\ criteria_promises # <<>>) =>
        LET latest == Len(criteria_promises)
            specs == criteria_intervals[latest].criteria.elems
        IN  /\ criteria_promises[latest].state = "pending" => eligibility_criteria = <<>>
            /\ criteria_promises[latest].state = "fulfilled" =>
                   /\ compile_all(specs).ok
                   /\ eligibility_criteria = compile_all(specs).rules

\* C13: every call of set_criteria, whatever its argument, returns with the
\* live rule set and the cache empty and with no element validated yet: the
\* reset is done by the call itself, before its first validation tick.
C13_SynchronousReset ==
    ~decommissioned =>
        \A criteria \in CriteriaArgs :
            LET r == public_set_criteria(This, criteria)
                id == Len(r.criteria_intervals)
            IN  /\ r.thrown = ""
                /\ r.eligibility_criteria = <<>>
                /\ r.trustworthy_list = <<>>
                /\ id = Len(criteria_intervals) + 1
                /\ r.criteria_intervals[id].live
                /\ r.criteria_intervals[id].compiled = <<>>
                /\ r.criteria_operation.current_index = 0

\* a call made while rules were live and keys were cached has just returned
C13_Witness ==
    LET id == Len(criteria_promises)
    IN  /\ id >= 2
        /\ Len(cache_before) = id
        /\ cache_before[id] # <<>>
        /\ criteria_promises[id - 1].state = "fulfilled"
        /\ criteria_intervals[id - 1].criteria.elems # <<>>
        /\ criteria_intervals[id].live
        /\ criteria_intervals[id].compiled = <<>>
        /\ criteria_operation.current_index = 0
        /\ eligibility_criteria = <<>>
        /\ trustworthy_list = <<>>

\* the rows of the classification in REPORT mode behind timer id, before and
\* after its next tick: one row per item consumed so far, in the order and
\* with the keys of the list the call was given; the rows written so far are
\* kept, and each row written by the tick has the placeholder display and the
\* matches of its item; when the tick fulfils the promise, the promise
\* carries one row per item of that list. lint_first: an item without a
\* display name is reported with the lint match even when its key is cached.
report_rows(id, lint_first) ==
    LET given == process_intervals[id].given
        rows == process_operation.report.rows
        r == process_interval_cb(This, id)
        rows2 == r.process_promises[id].report.rows
        placeholder(d) == IF d.t = "null" THEN Unknown
                          ELSE IF d.v = <<>> THEN Empty ELSE d.v
    IN  /\ process_operation.report.defined
        /\ Len(rows) + Len(process_intervals[id].items_infos) = Len(given)
        /\ \A k \in 1..Len(rows) :
               /\ rows[k][1] = given[k].uri
               /\ rows[k][2] = placeholder(given[k].uri_display)
        /\ \A k \in 1..Len(r.evaluated) :
               LET e == r.evaluated[k]
                   missing == e.item.uri_display.t = "null" \/ e.item.uri_display.v = <<>>
                   row == IF r.process_promises[id].state = "fulfilled"
                          THEN rows2[Len(rows) + k]
                          ELSE r.process_operation.report.rows[Len(rows) + k]
               IN  /\ e.item = given[Len(rows) + k]
                   /\ row[1] = e.item.uri
                   /\ row[2] = placeholder(e.item.uri_display)
                   /\ (missing /\ (lint_first \/ ~e.known)) => row[3] = << <<"lint", LintLabel>> >>
                   /\ (e.known /\ ~(lint_first /\ missing)) => row[3] = <<>>
        /\ r.process_promises[id].state = "fulfilled" =>
               /\ r.process_promises[id].report.defined
               /\ Len(rows2) = Len(given)
               /\ SubSeq(rows2, 1, Len(rows)) = rows
               /\ \A k \in 1..Len(given) : rows2[k][1] = given[k].uri
        /\ r.process_promises[id].state = "pending" =>
               /\ r.process_intervals[id].items_infos # <<>>
               /\ SubSeq(r.process_operation.report.rows, 1, Len(rows)) = rows

\* C14: a fulfilled inspect_to_report promise carries a report with one row
\* per item of the list the call was given, in order and with the item's key
\* and display or placeholder; items skipped via the cache have empty matches
\* and the other items without a display name have the lint match (the
\* reading that gives the cache test the precedence it has in the code).
C14_ReportComplete ==
    /\ \A id \in LiveProcessTimers :
           process_intervals[id].mode = "REPORT" => report_rows(id, FALSE)
    /\ \A id \in DOMAIN process_promises :
           (process_promises[id].state = "fulfilled"
                /\ process_intervals[id].mode = "REPORT") =>
               /\ process_promises[id].report.defined
               /\ Len(process_promises[id].report.rows) = process_intervals[id].total

\* the live rules whose pattern matches display, in rule order, as matches
matching_rules(display) ==
    LET Matches(c) == match_string(c.pattern_spec, display)
        hits == SelectSeq(eligibility_criteria, Matches)
    IN  [i \in 1..Len(hits) |-> <<hits[i].type, hits[i].label>>]

\* C15: in REPORT mode every item of a batch whose key is not cached when it
\* is reached and whose display is non-empty is checked against all live
\* rules, and its row carries exactly the rules that match its display, in
\* rule order, as <<kind, label>>; with no match the key is the newest member
\* of the cache right afterwards, with a match the cache is left as it was.
C15_BatchEvaluatesAllRules ==
    \A id \in LiveProcessTimers :
        process_intervals[id].mode = "REPORT" =>
            LET items_infos == process_intervals[id].items_infos
            IN  \A k \in 1..Min(BATCH_SIZE, Len(items_infos)) :
                    LET item == items_infos[k]
                        pre == process_batch(This, SubSeq(items_infos, 1, k - 1), "REPORT")
                        post == process_item(pre, item, "REPORT")
                        rows == post.process_operation.report.rows
                        expected == matching_rules(item.uri_display.v)
                    IN  (/\ item.uri \notin Range(pre.trustworthy_list)
                         /\ item.uri_display.t = "string"
                         /\ item.uri_display.v # <<>>) =>
                            /\ Len(rows) = Len(pre.process_operation.report.rows) + 1
                            /\ rows[Len(rows)] = <<item.uri, item.uri_display.v, expected>>
                            /\ post.evaluated[Len(post.evaluated)].criteria =
                                   Len(eligibility_criteria)
                            /\ expected = <<>> =>
                                   /\ post.trustworthy_list # <<>>
                                   /\ post.trustworthy_list[Len(post.trustworthy_list)] = item.uri
                            /\ expected # <<>> =>
                                   post.trustworthy_list = pre.trustworthy_list

\* a report with an item matched by two rules and a clean item, now cached
C15_Witness ==
    \E id \in DOMAIN process_promises :
        /\ process_promises[id].state = "fulfilled"
        /\ process_promises[id].report.defined
        /\ Len(process_promises[id].report.rows) = 3
        /\ process_promises[id].report.rows[1] =
               <<"a", <<"x", "t">>, << <<"glob", Str(<<"L">>)>>, <<"glob", Str(<<"*", "t">>)>> >> >>
        /\ process_promises[id].report.rows[3] = <<"b", <<"x", "u">>, <<>> >>
        /\ "b" \in Range(trustworthy_list)
        /\ "a" \notin Range(trustworthy_list)

\* C16: in LAZY mode a tick handles the first item left in the list. If its
\* key is not cached and it has a match - the lint match for a missing or
\* empty display, a rule match otherwise - the tick emits exactly one
\* 'matched-result' with the key and one of its matches and leaves the cache
\* as it was; if it has no match the tick emits nothing and the key becomes
\* the newest member of the cache; if its key is cached the tick emits
\* nothing and leaves the cache as it was.
C16_StreamingDeliveryAndCaching ==
    \A id \in LiveProcessTimers :
        process_intervals[id].mode = "LAZY" =>
            LET r == process_interval_cb(This, id)
                items_infos == process_intervals[id].items_infos
            IN  IF items_infos = <<>>
                THEN r.emitted = <<>> /\ r.trustworthy_list = trustworthy_list
                ELSE LET item == items_infos[1]
                         known == item.uri \in Range(trustworthy_list)
                         missing == item.uri_display.t = "null" \/ item.uri_display.v = <<>>
                         matches == IF missing THEN <<LintSin>>
                                    ELSE matching_rules(item.uri_display.v)
                     IN  /\ (~known /\ matches # <<>>) =>
                                /\ Len(r.emitted) = 1
                                /\ r.emitted[1][1] = item.uri
                                /\ r.emitted[1][2] \in Range(matches)
                                /\ r.trustworthy_list = trustworthy_list
                         /\ (~known /\ matches = <<>>) =>
                                /\ r.emitted = <<>>
                                /\ r.trustworthy_list # <<>>
                                /\ r.trustworthy_list[Len(r.trustworthy_list)] = item.uri
                         /\ known =>
                                /\ r.emitted = <<>>
                                /\ r.trustworthy_list = trustworthy_list

\* a tick has just emitted the lint match of ("b", "") under live rules, after
\* the rule match of "a": neither key was cached, "e" was cached as clean
C16_Witness ==
    /\ emitted = << <<"b", LintSin>> >>
    /\ eligibility_criteria # <<>>
    /\ "e" \in Range(trustworthy_list)
    /\ "a" \notin Range(trustworthy_list)
    /\ "b" \notin Range(trustworthy_list)

\* C17: in LAZY mode a tick emits at most one 'matched-result' and removes the
\* item it handled from the list, so no item is handled twice in a run; for
\* an item with a non-empty display whose key is not cached the event carries
\* the first live rule, in rule order, whose pattern matches the display, and
\* exactly the rules up to that one are evaluated.
C17_StreamingShortCircuit ==
    \A id \in LiveProcessTimers :
        process_intervals[id].mode = "LAZY" =>
            LET r == process_interval_cb(This, id)
                items_infos == process_intervals[id].items_infos
            IN  /\ Len(r.emitted) <= 1
                /\ items_infos # <<>> =>
                       LET item == items_infos[1]
                           hits == {i \in 1..Len(eligibility_criteria) :
                                       match_string(eligibility_criteria[i].pattern_spec,
                                                    item.uri_display.v)}
                       IN  /\ Len(r.evaluated) = 1
                           /\ r.evaluated[1].item = item
                           /\ r.process_intervals[id].live =>
                                  r.process_intervals[id].items_infos = Tail(items_infos)
                           /\ ~r.process_intervals[id].live => Len(items_infos) = 1
                           /\ (/\ item.uri \notin Range(trustworthy_list)
                               /\ item.uri_display.t = "string"
                               /\ item.uri_display.v # <<>>
                               /\ hits # {}) =>
                                  LET first == CHOOSE i \in hits : \A j \in hits : i <= j
                                  IN  /\ r.emitted =
                                             << <<item.uri,
                                                  <<eligibility_criteria[first].type,
                                                    eligibility_criteria[first].label>> >> >>
                                      /\ r.evaluated[1].criteria = first

\* a tick has just emitted the match of "xt" with the first of two live rules
\* that both match it
C17_Witness ==
    /\ Len(eligibility_criteria) = 2
    /\ match_string(eligibility_criteria[1].pattern_spec, <<"x", "t">>)
    /\ match_string(eligibility_criteria[2].pattern_spec, <<"x", "t">>)
    /\ emitted = << <<"a", <<"glob", Str(<<"L">>)>> >> >>

\* C18: a classification promise, LAZY or REPORT, is fulfilled only when the
\* ticks of its own timer have gone through every item of the list the call
\* was given: while the timer is armed the promise is not fulfilled and the
\* items processed plus the items left are the items given, and for a
\* fulfilled promise the items processed are the items given.
C18_FulfilledMeansConsumed ==
    \A id \in DOMAIN process_promises :
        /\ process_intervals[id].live =>
               /\ process_promises[id].state # "fulfilled"
               /\ process_intervals[id].processed + Len(process_intervals[id].items_infos)
                      = process_intervals[id].total
               /\ process_intervals[id].total = Len(process_intervals[id].given)
        /\ process_promises[id].state = "fulfilled" =>
               /\ ~process_intervals[id].live
               /\ process_intervals[id].processed = process_intervals[id].total

\* C19: adding a key the cache does not have appends it when the cache is
\* below MAX_CACHE_SIZE, and at capacity removes exactly the earliest inserted
\* member and appends the key, so that the cache keeps the MAX_CACHE_SIZE
\* latest distinct keys in insertion order.
C19_FifoEviction ==
    \A uri \in Uris \ Range(trustworthy_list) :
        add_to_trustworthy_list(trustworthy_list, uri) =
            IF Len(trustworthy_list) < MAX_CACHE_SIZE
            THEN Append(trustworthy_list, uri)
            ELSE Append(Tail(trustworthy_list), uri)

later_calls_start(st) ==
    /\ \A items_info \in ItemLists :
           LET n == inspect_to_signals(Persistent(st), items_info)
               id == Len(n.process_promises)
           IN  /\ n.thrown = ""
               /\ id = Len(st.process_promises) + 1
               /\ n.process_promises[id] = Pending
               /\ n.process_intervals[id].live
               /\ n.process_intervals[id].items_infos = items_info
               /\ n.process_operation.source = id
    /\ \A criteria \in {c \in CriteriaArgs : c.kind = "array"} :
           LET n == public_set_criteria(Persistent(st), criteria)
               id == Len(n.criteria_promises)
           IN  /\ n.thrown = ""
               /\ id = Len(st.criteria_promises) + 1
               /\ n.criteria_promises[id] = Pending
               /\ n.criteria_intervals[id].live
               /\ n.criteria_operation.source = id
               /\ n.criteria_operation.current_index = 0

\* C21: a tick that throws something other than a validation or cancellation
\* error stops its timer for good and rejects the promise of its operation
\* with the wrapping Error; a classification tick that fails leaves the live
\* rule set as it was, a validation tick that fails leaves it empty, and
\* classification and set_criteria calls made afterwards start normally.
C21_UnexpectedErrorsContained ==
    /\ \A id \in LiveProcessTimers :
           LET r == process_interval_cb(This, id)
           IN  r.caught # "" =>
                   /\ ~r.process_intervals[id].live
                   /\ r.process_operation.source = NO_SOURCE
                   /\ r.process_promises[id] =
                          Rejected(Err("Error", "Processing failed! Unknown error"))
                   /\ r.eligibility_criteria = eligibility_criteria
                   /\ later_calls_start(r)
    /\ \A id \in LiveCriteriaTimers :
           LET r == criteria_interval_cb(This, id)
           IN  r.caught \notin {"", "CriteriaValidateError", "SetCriteriaCancelledError"} =>
                   /\ ~r.criteria_intervals[id].live
                   /\ r.criteria_operation.source = NO_SOURCE
                   /\ r.criteria_promises[id] =
                          Rejected(Err("Error", "Failed to set criteria: Unknown error."))
                   /\ r.eligibility_criteria = <<>>
                   /\ later_calls_start(r)

\* the tick of a set_criteria([]) call fulfils its promise without catching
\* anything, stops its timer and leaves the live rule set empty
empty_criteria_fulfil ==
    \A id \in LiveCriteriaTimers :
        (criteria_intervals[id].criteria = [kind |-> "array", elems |-> <<>>]) =>
            LET r == criteria_interval_cb(This, id)
            IN  /\ r.caught = ""
                /\ criteria_promises[id] = Pending
                /\ r.criteria_promises[id] = Fulfilled(NoReport)
                /\ ~r.criteria_intervals[id].live
                /\ r.eligibility_criteria = <<>>

\* what one tick of classification timer id yields under the empty live rule
\* set; skip_known leaves out of the lint part the items whose key is in the
\* cache when their turn comes.  An item without a display name gets exactly
\* the lint match and is not cached; any other item gets no match, and its
\* key is cached by the tick unless the cache had it already.
empty_rules_verdicts(id, skip_known) ==
    LET r == process_interval_cb(This, id)
        mode == process_intervals[id].mode
        rows == Len(process_operation.report.rows)
        report == IF r.process_promises[id].state = "fulfilled"
                  THEN r.process_promises[id].report
                  ELSE r.process_operation.report
    IN  \A k \in 1..Len(r.evaluated) :
            LET e == r.evaluated[k]
                missing == e.item.uri_display.t = "null" \/ e.item.uri_display.v = <<>>
            IN  /\ e.criteria = 0
                /\ (missing /\ ~(skip_known /\ e.known)) =>
                       /\ mode = "LAZY" => r.emitted = << <<e.item.uri, LintSin>> >>
                       /\ mode = "REPORT" => report.rows[rows + k][3] = <<LintSin>>
                       /\ e.item \notin Range(r.cached)
                /\ ~missing =>
                       /\ mode = "LAZY" => r.emitted = <<>>
                       /\ mode = "REPORT" => report.rows[rows + k][3] = <<>>
                       /\ e.known \/ e.item \in Range(r.cached)
                       /\ e.item \in Range(r.cached) =>
                              e.item.uri \in Range(r.trustworthy_list)

aborting_calls ==
    {public_process_abort(This, msg) : msg \in AbortMessages}
    \cup {inspect_to_signals(This, l) : l \in ItemLists}
    \cup {inspect_to_report(This, l) : l \in ItemLists}
    \cup {public_set_criteria(This, c) : c \in CriteriaArgs}
    \cup {public_decommission(This)}

\* C23: the list a classification call was given loses items at its front
\* only, as ticks process them: while the timer is armed the list is the
\* unprocessed tail of what was given, a tick removes exactly the items it
\* goes through, a promise that a tick fulfils has its list empty, and a
\* call that aborts or supersedes the operation rejects its promise and
\* leaves the list as it is, the unprocessed items in their original order.
C23_DestructiveConsumption ==
    \A id \in LiveProcessTimers :
        LET list == process_intervals[id].items_infos
            given == process_intervals[id].given
        IN  /\ Len(list) <= Len(given)
            /\ list = SubSeq(given, Len(given) - Len(list) + 1, Len(given))
            /\ process_intervals[id].processed = Len(given) - Len(list)
            /\ \A reaction \in Handlers :
                   (reaction = NoHandler \/ process_intervals[id].mode = "LAZY") =>
                   LET r == process_interval_cb_emit(This, id, reaction)
                       n == Len(r.evaluated)
                   IN  /\ n <= Len(list)
                       /\ \A k \in 1..n : r.evaluated[k].item = list[k]
                       /\ r.process_intervals[id].items_infos = SubSeq(list, n + 1, Len(list))
                       /\ \A k \in DOMAIN r.process_promises :
                              (/\ r.process_promises[k].state = "fulfilled"
                               /\ k \in DOMAIN process_promises => process_promises[k] = Pending)
                                  => r.process_intervals[k].items_infos = <<>>
            /\ \A r \in aborting_calls :
                   r.thrown = "" =>
                       /\ r.process_promises[id].state = "rejected"
                       /\ r.process_promises[id].error.name = "ProcessAbortError"
                       /\ ~r.process_intervals[id].live
                       /\ r.process_intervals[id].items_infos = list

\* the fields of a criterion that the validation accepts
valid_criterion(c) ==
    /\ c.obj
    /\ c.label.t \in {"undefined", "null", "string"}
    /\ c.type = "glob"
    /\ c.pattern.t = "string" /\ c.pattern.v # <<>>

\* C24: whatever the criterion and its fields, compilation gives a
\* CriteriaValidateError and no compiled rule unless the criterion is a
\* non-null object, its label, when there is one, is a string, and for type
\* 'glob' its pattern is a non-empty string; the label of a compiled rule is
\* a string: the label given, or the pattern text when none was given.
C24_SpecValidation ==
    criterion_compiled # NotCompiled =>
        /\ ~valid_criterion(criterion_arg) =>
               /\ ~criterion_compiled.ok
               /\ criterion_compiled.error.name = "CriteriaValidateError"
        /\ criterion_compiled.ok =>
               /\ criterion_compiled.rule.label.t = "string"
               /\ criterion_compiled.rule.label =
                      IF criterion_arg.label.t \in {"undefined", "null"}
                      THEN criterion_arg.pattern
                      ELSE criterion_arg.label

(***************************************************************************)
(* Properties of the AsyncIntervalAdapter.                                 *)
(***************************************************************************)
LiveAdapterTimers(st) == {id \in DOMAIN st.intervals : st.intervals[id].live}

\* k calls of start_new one after the other, nothing in between
RECURSIVE start_new_times(_, _)
start_new_times(st, k) ==
    IF k = 0 THEN st ELSE start_new_times(start_new(st, NoArgs), k - 1)

\* C25: k >= 1 start_new calls in a row, from any state of the adapter, leave
\* exactly one operation running, that of the last call: its timer is the
\* only live one, its promise is pending and each of the k - 1 promises
\* before it is rejected with ProcessAbortError; when the callback then
\* resolves, the last promise is the one that is fulfilled, the others stay
\* rejected and nothing is left running.
C25_AdapterSupersession ==
    \A k \in 1..MaxStarts :
        LET first == Len(adapter_promises) + 1
            final == Len(adapter_promises) + k
            r == start_new_times(Adapter, k)
            done == resolve_wrapper(r, final, "done")
        IN  /\ Len(r.promises) = final
            /\ LiveAdapterTimers(r) = {final}
            /\ is_running(r)
            /\ r.controller = [source |-> final, resolve |-> final, reject |-> final]
            /\ r.promises[final] = AdapterPending
            /\ \A i \in first..(final - 1) :
                   r.promises[i] =
                       AdapterRejected(ProcessAbortError("New process will be started"))
            /\ done.promises[final] = AdapterFulfilled("done")
            /\ \A i \in 1..(final - 1) : done.promises[i] = r.promises[i]
            /\ LiveAdapterTimers(done) = {}
            /\ ~is_running(done)

\* three start_new calls in a row on a new adapter (timers 1 and 2 never
\* ticked), then the callback of the third resolved
C25_Witness ==
    /\ adapter_promises =
           << AdapterRejected(ProcessAbortError("New process will be started")),
              AdapterRejected(ProcessAbortError("New process will be started")),
              AdapterFulfilled("done") >>
    /\ adapter_saved = {3}

\* C26: at most one timer of the adapter is live, and it is the timer of the
\* most recent start_new call, which the controller holds; every start_new
\* call creates exactly one timer; after abort() is_running is false and no
\* timer of the adapter is live.
C26_AdapterNoTimerLeak ==
    /\ Cardinality(LiveAdapterTimers(Adapter)) <= 1
    /\ \A id \in LiveAdapterTimers(Adapter) :
           /\ id = Len(adapter_intervals)
           /\ adapter_controller.source = id
           /\ adapter_promises[id] = AdapterPending
    /\ is_running(Adapter) <=> LiveAdapterTimers(Adapter) # {}
    /\ LET r == start_new(Adapter, NoArgs)
       IN  /\ Len(r.intervals) = Len(adapter_intervals) + 1
           /\ LiveAdapterTimers(r) = {Len(r.intervals)}
    /\ \A msg \in AbortMessages :
           LET r == abort(Adapter, msg)
           IN  /\ ~is_running(r)
               /\ LiveAdapterTimers(r) = {}
               /\ Len(r.intervals) = Len(adapter_intervals)

\* start_new, abort, start_new, start_new, abort: four timers created, none
\* live, nothing running
C26_Witness ==
    /\ Len(adapter_intervals) = 4
    /\ LiveAdapterTimers(Adapter) = {}
    /\ ~is_running(Adapter)
    /\ adapter_saved = {}
    /\ adapter_promises[1].error = ProcessAbortError("test abort")
    /\ adapter_promises[2].error = ProcessAbortError("New process will be started")
    /\ adapter_promises[4].error = ProcessAbortError("test abort")

\* C27: the ticks of one start_new call work on the one list the call was
\* given: what the callback has recorded so far followed by what is left in
\* the list is everything that was put into the list, in order; a tick on a
\* non-empty list records its first element, removes it and leaves the call
\* running; only a tick that finds the list empty fulfils the promise, so a
\* fulfilled call has recorded every element, those appended during the run
\* included.
C27_SharedArgumentsInOrder ==
    \A id \in DOMAIN adapter_intervals :
        LET t == adapter_intervals[id]
        IN  /\ t.results \o t.items = t.given
            /\ adapter_promises[id].state = "fulfilled" =>
                   t.items = <<>> /\ t.results = t.given /\ ~t.live
            /\ t.live =>
                   LET r == shift_callback(Adapter, id)
                   IN  IF t.items = <<>>
                       THEN /\ r.promises[id] = AdapterFulfilled("done")
                            /\ r.intervals[id].results = t.given
                            /\ ~r.intervals[id].live
                       ELSE /\ r.intervals[id].results = Append(t.results, Head(t.items))
                            /\ r.intervals[id].results \o r.intervals[id].items
                                   = r.intervals[id].given
                            /\ r.intervals[id].live
                            /\ r.promises[id] = AdapterPending

\* start_new([1, 2, 3]) with an element appended by the caller during the run
\* is fulfilled with 1, 2, 3, 666 and the appended element recorded in order
C27_Witness ==
    \E id \in DOMAIN adapter_intervals :
        /\ adapter_promises[id] = AdapterFulfilled("done")
        /\ adapter_intervals[id].results \in
               { <<1, 2, 3, Pushed, Malicious>>, <<1, 2, 3, Malicious, Pushed>>,
                 <<1, 2, Pushed, 3, Malicious>> }

(***************************************************************************)
(* Properties of the DelayedSignal.                                        *)
(***************************************************************************)
\* the timeouts that will still run their callback: the pending emissions
LiveTimeouts(st) == {id \in DOMAIN st.timeouts : st.timeouts[id].live}

\* the episodes of a sequence of signals: 'scheduled' opens one, 'canceled'
\* closes one, 'occurred' closes one if one is open; bad: a 'scheduled' in an
\* open episode or a 'canceled' outside of one
RECURSIVE episodes(_)
episodes(signals) ==
    IF signals = <<>> THEN [open |-> FALSE, bad |-> FALSE]
    ELSE LET before == episodes(SubSeq(signals, 1, Len(signals) - 1))
             signal == signals[Len(signals)]
         IN  CASE signal = "scheduled" -> [open |-> TRUE, bad |-> before.bad \/ before.open]
               [] signal = "canceled" -> [open |-> FALSE, bad |-> before.bad \/ ~before.open]
               [] OTHER -> [open |-> FALSE, bad |-> before.bad]

\* C28: pending_invoke emits 'scheduled' exactly when no emission is pending
\* and leaves one pending timeout, due delay after the call; at most one
\* emission is pending at a time, is_pending() is true exactly then, and the
\* signals emitted so far form episodes 'scheduled' ... 'occurred' or
\* 'canceled' with the last one open exactly while an emission is pending;
\* the timeout runs when it is due, emits 'occurred' once and leaves nothing
\* pending, so that the next pending_invoke emits 'scheduled' again.
C28_Debounce ==
    ~ds_decommissioned =>
        /\ Cardinality(LiveTimeouts(Delayed)) <= 1
        /\ (is_pending(Delayed).ret = "true") <=> (LiveTimeouts(Delayed) # {})
        /\ ~episodes(ds_emitted).bad
        /\ episodes(ds_emitted).open <=> (LiveTimeouts(Delayed) # {})
        /\ \A id \in LiveTimeouts(Delayed) : ds_now <= ds_timeouts[id].due
        /\ LET r == pending_invoke(Delayed, NoListener)
           IN  /\ r.emitted = IF LiveTimeouts(Delayed) = {}
                              THEN Append(ds_emitted, "scheduled")
                              ELSE ds_emitted
               /\ LiveTimeouts(r) = {r.timer}
               /\ r.timer = Len(ds_timeouts) + 1
               /\ r.timeouts[r.timer].due = ds_now + ds_delay
        /\ \A id \in LiveTimeouts(Delayed) :
               LET r == timeout_cb(Delayed, id, NoListener)
               IN  /\ r.emitted = Append(ds_emitted, "occurred")
                   /\ LiveTimeouts(r) = {}
                   /\ is_pending(r).ret = "false"
                   /\ pending_invoke(r, NoListener).emitted
                          = r.emitted \o <<"scheduled">>

\* C29: cancel() emits 'canceled' and flush() emits 'occurred' when an
\* emission is pending and do nothing otherwise; invoke() always emits
\* 'occurred'; after each of them no timeout is left to run, so no 'occurred'
\* of the episode they ended comes later.
C29_EpisodeTermination ==
    ~ds_decommissioned =>
        LET pending == LiveTimeouts(Delayed) # {}
            c == cancel(Delayed, NoListener)
            f == flush(Delayed, NoListener)
            i == invoke(Delayed, NoListener)
        IN  /\ pending =>
                   /\ c.emitted = Append(ds_emitted, "canceled")
                   /\ f.emitted = Append(ds_emitted, "occurred")
            /\ ~pending => c = Delayed /\ f = Delayed
            /\ i.emitted = Append(ds_emitted, "occurred")
            /\ LiveTimeouts(c) = {} /\ c.timer = NO_TIMER
            /\ LiveTimeouts(f) = {} /\ f.timer = NO_TIMER
            /\ LiveTimeouts(i) = {} /\ i.timer = NO_TIMER
            /\ ~episodes(c.emitted).open
            /\ ~episodes(f.emitted).open
            /\ ~episodes(i.emitted).open

\* every method and the getter throw DecommissionedError and emit nothing
all_throw_decommissioned(st) ==
    /\ \A r \in {pending_invoke(st, NoListener), invoke(st, NoListener),
                 flush(st, NoListener), cancel(st, NoListener), is_pending(st),
                 emit(st, "occurred", NoListener), debounce_delay(st)} :
           /\ r.thrown = "DecommissionedError"
           /\ r.emitted = st.emitted
           /\ r.timeouts = st.timeouts

\* C30: decommission() emits 'canceled' once if an emission is pending and
\* nothing otherwise; from then on pending_invoke, invoke, flush, cancel,
\* is_pending, emit and the debounce_delay getter throw DecommissionedError,
\* and nothing is emitted any more: no method emits and no timeout is left
\* whose callback could.
C30_DelayedDecommission ==
    /\ ~ds_decommissioned =>
           LET r == delayed_decommission(Delayed, NoListener)
           IN  /\ r.emitted = IF LiveTimeouts(Delayed) # {}
                              THEN Append(ds_emitted, "canceled")
                              ELSE ds_emitted
               /\ r.decommissioned
               /\ all_throw_decommissioned(r)
               /\ \A id \in LiveTimeouts(r) : timeout_cb(r, id, NoListener).emitted = r.emitted
    /\ ds_decommissioned =>
           /\ all_throw_decommissioned(Delayed)
           /\ \A id \in LiveTimeouts(Delayed) :
                  timeout_cb(Delayed, id, NoListener).emitted = ds_emitted

\* C31: set_criteria called while a classification is in flight, from outside
\* or from a handler of 'matched-result' inside a tick, leaves that
\* classification's promise rejected with ProcessAbortError 'Stopping for
\* criteria update' and no classification timer armed when it returns, having
\* emitted and evaluated nothing itself; a settled classification has no armed
\* timer, so none of its ticks runs afterwards; and every verdict a tick
\* computes is computed from the rule set that is live at that tick.
C31_SetCriteriaPreempts ==
    /\ \A id \in DOMAIN process_promises :
           process_promises[id].state # "pending" => ~process_intervals[id].live
    /\ ~decommissioned =>
           \A criteria \in CriteriaArgs :
               LET r == public_set_criteria(This, criteria)
               IN  /\ r.thrown = ""
                   /\ \A id \in DOMAIN process_promises :
                          r.process_promises[id] =
                              IF id \in PendingProcess
                              THEN Rejected(ProcessAbortError("Stopping for criteria update"))
                              ELSE process_promises[id]
                   /\ \A id \in DOMAIN r.process_intervals : ~r.process_intervals[id].live
                   /\ r.emitted = <<>>
                   /\ r.evaluated = <<>>
                   /\ r.eligibility_criteria = <<>>
    /\ \A id \in LiveProcessTimers :
           /\ \A reaction \in {h \in Handlers : h.kind = "set_criteria"} :
                  LET r == process_interval_cb_emit(This, id, reaction)
                  IN  Len(r.criteria_promises) > Len(criteria_promises) =>
                          /\ r.process_promises[id] =
                                 Rejected(ProcessAbortError("Stopping for criteria update"))
                          /\ \A k \in DOMAIN r.process_intervals : ~r.process_intervals[k].live
                          /\ Len(r.emitted) = 1
                          /\ r.eligibility_criteria = <<>>
           /\ LET r == process_interval_cb(This, id)
                  mode == process_intervals[id].mode
              IN  \A k \in 1..Len(r.evaluated) :
                      LET e == r.evaluated[k]
                      IN  (~e.known /\ e.item.uri_display.t # "undefined") =>
                              e.sins = check_criteria(eligibility_criteria,
                                                      e.item.uri_display, mode).sins

\* set_criteria has stopped a classification that was in flight
C31_Witness ==
    \E id \in DOMAIN process_promises :
        /\ process_promises[id] = Rejected(ProcessAbortError("Stopping for criteria update"))
        /\ ~process_intervals[id].live
        /\ criteria_promises # <<>>
        /\ eligibility_criteria = <<>>

\* what one tick does to the operation of an armed timer: a classification
\* tick takes one item in LAZY mode and min(BATCH_SIZE, remaining) items in
\* REPORT mode off the front of the list, fulfils the promise exactly when that
\* empties the list, rejects it when an item makes it fail, and otherwise
\* leaves the timer armed; a validation tick stops its timer with the promise
\* settled, or handles one spec and leaves the timer armed, which it can do
\* only while specs are left
ticks_progress ==
    /\ \A id \in PendingProcess : process_intervals[id].live
    /\ \A id \in PendingCriteria : criteria_intervals[id].live
    /\ \A id \in LiveProcessTimers :
           LET r == process_interval_cb(This, id)
               items == process_intervals[id].items_infos
               n == IF process_intervals[id].mode = "REPORT"
                    THEN (IF Len(items) < BATCH_SIZE THEN Len(items) ELSE BATCH_SIZE)
                    ELSE (IF Len(items) < 1 THEN Len(items) ELSE 1)
           IN  /\ process_promises[id].state = "pending"
               /\ r.thrown = ""
               /\ r.process_intervals[id].items_infos = SubSeq(items, n + 1, Len(items))
               /\ IF r.caught # ""
                  THEN /\ r.process_promises[id].state = "rejected"
                       /\ ~r.process_intervals[id].live
                  ELSE /\ Len(r.evaluated) = n
                       /\ \A k \in 1..n : r.evaluated[k].item = items[k]
                       /\ IF Len(items) = n
                          THEN /\ r.process_promises[id].state = "fulfilled"
                               /\ ~r.process_intervals[id].live
                          ELSE /\ r.process_promises[id].state = "pending"
                               /\ r.process_intervals[id].live
    /\ \A id \in LiveCriteriaTimers :
           LET r == criteria_interval_cb(This, id)
               specs == criteria_intervals[id].criteria.elems
               index == criteria_operation.current_index
           IN  /\ criteria_operation.source = id
               /\ index <= Len(specs)
               /\ r.thrown = ""
               /\ \/ /\ ~r.criteria_intervals[id].live
                     /\ r.criteria_promises[id].state # "pending"
                  \/ /\ r.criteria_intervals[id].live
                     /\ r.criteria_promises[id] = criteria_promises[id]
                     /\ index < Len(specs)
                     /\ r.criteria_operation.current_index = index + 1

C34_ReentrantSupersessionSafe ==
    \A id \in LiveProcessTimers :
        \A reaction \in Handlers \ {NoHandler} :
            LET r == process_interval_cb_emit(This, id, reaction)
            IN  (process_intervals[id].mode = "LAZY" /\ r.emitted # <<>>) =>
                    /\ r.thrown = ""
                    /\ r.process_promises[id].state = "rejected"
                    /\ r.process_promises[id].error.name = "ProcessAbortError"
                    /\ ~r.process_intervals[id].live
                    /\ \A k \in (Len(process_promises) + 1)..Len(r.process_promises) :
                           /\ r.process_promises[k] = Pending
                           /\ r.process_intervals[k].live
                           /\ r.process_intervals[k].items_infos = reaction.items_info
                           /\ r.process_operation.source = k
                           /\ r.process_operation.controller.resolve = k
                           /\ r.process_operation.controller.reject = k
                    /\ \A k \in (Len(criteria_promises) + 1)..Len(r.criteria_promises) :
                           /\ r.criteria_promises[k] = Pending
                           /\ r.criteria_intervals[k].live
                           /\ r.criteria_operation.source = k
                           /\ r.criteria_operation.controller.resolve = k
                    /\ \A k \in DOMAIN criteria_promises :
                           reaction.kind # "set_criteria" =>
                               /\ r.criteria_promises[k] = criteria_promises[k]
                               /\ r.criteria_intervals[k] = criteria_intervals[k]

\* C35: while a newer operation of the adapter is running, invoking the
\* saved resolve / reject wrapper of an operation that was aborted or
\* superseded leaves the newer operation's timer armed and its controller
\* stored and settles no promise, so the newer operation can still be ticked,
\* aborted and settled.
C35_StaleCallbacksHarmless ==
    \A id \in adapter_saved :
        (adapter_promises[id].state = "rejected"
            /\ is_running(Adapter)
            /\ adapter_controller.source # id) =>
            \A r \in {resolve_wrapper(Adapter, id, "should be ignored"),
                      reject_wrapper(Adapter, id, Err("Error", "should also be ignored"))} :
                /\ r.intervals[adapter_controller.source].live
                /\ r.controller = adapter_controller
                /\ r.promises = adapter_promises
                /\ is_running(r)

\* C36: no step changes the live rule set under a classification that has
\* had a tick and stays in flight: a run that goes on to fulfilment sees one
\* rule set from its first tick to its last.
C36_OneRuleSetPerRun ==
    [][ \A id \in DOMAIN process_intervals :
            (/\ process_intervals[id].live
             /\ process_intervals[id].processed > 0
             /\ process_intervals'[id].live)
                => eligibility_criteria' = eligibility_criteria ]_vars

\* C37: the ticks of a streaming run go through the list in its order, one
\* item per tick, and a tick emits at most one 'matched-result', with the key
\* of the item it processes and the first match of that item, whatever a
\* handler of the signal does; a report tick emits none.  A run that is
\* settled, by abort or supersession as by completion, has no armed timer, so
\* it has no further tick and emits nothing more.
C37_StreamingEventOrder ==
    /\ \A id \in DOMAIN process_promises :
           process_promises[id].state # "pending" => ~process_intervals[id].live
    /\ \A id \in LiveProcessTimers :
           LET timer == process_intervals[id]
           IN  /\ timer.items_infos =
                      SubSeq(timer.given, timer.processed + 1, Len(timer.given))
               /\ \A reaction \in Handlers :
                      LET r == process_interval_cb_emit(This, id, reaction)
                      IN  /\ Len(r.emitted) <= 1
                          /\ timer.mode = "REPORT" => r.emitted = <<>>
                          /\ r.emitted # <<>> =>
                                 /\ timer.items_infos # <<>>
                                 /\ r.emitted[1][1] = Head(timer.items_infos).uri
                                 /\ r.emitted[1][2] =
                                        check_criteria(eligibility_criteria,
                                                       Head(timer.items_infos).uri_display,
                                                       "LAZY").sins[1]

\* the third tick of a streaming run has emitted the lint match of its third
\* item and fulfilled the run
C37_Witness ==
    \E id \in DOMAIN process_promises :
        /\ process_intervals[id].mode = "LAZY"
        /\ process_intervals[id].processed = 3
        /\ process_promises[id].state = "fulfilled"
        /\ emitted = << <<"d", <<"lint", LintLabel>> >> >>

(***************************************************************************)
(* Properties of the RecentFilesProvider.                                  *)
(***************************************************************************)
\* C38: once a request_monitoring, withdraw_monitoring or settings change has
\* been handled, the state of a provider in service is INACTIVE when
\* monitoring is not requested, PENDING when it is requested and the history
\* is disabled, ACTIVE when it is requested and the history is enabled, and
\* the provider has its handler connected to 'changed' of the recent manager,
\* once, exactly when the state is ACTIVE.
C38_MonitoringState ==
    ~rfp_decommissioned =>
        /\ get_state(Provider) =
               (IF ~rfp_requested THEN "INACTIVE"
                ELSE IF ~rfp_enabled THEN "PENDING"
                ELSE "ACTIVE")
        /\ rfp_connected = (IF get_state(Provider) = "ACTIVE" THEN 1 ELSE 0)
        /\ (rfp_handler # NO_HANDLER) <=> (rfp_connected = 1)

\* the requests waiting in the queue of st, as the set of their promises
Waiting(st) == {st.remove_queue[k].controller : k \in 1..Len(st.remove_queue)}

\* r is st with every waiting request rejected with QueueCleanupError(msg),
\* the queue empty and the removal timer stopped; settled promises are as
\* they were
cleaned_up(st, r, msg) ==
    /\ r.remove_queue = <<>>
    /\ ~r.source
    /\ DOMAIN r.promises = DOMAIN st.promises
    /\ \A id \in DOMAIN st.promises :
           r.promises[id] = IF id \in Waiting(st)
                            THEN Rejected(Err("QueueCleanupError", msg))
                            ELSE st.promises[id]

\* remove_item(uri) while uri waits in the queue: the new promise is
\* rejected with DuplicateUriError, and the queue, the timer and the other
\* promises are as they were
duplicate_rejected(uri) ==
    LET r == public_remove_item(Provider, uri)
        id == Len(rfp_promises) + 1
    IN  /\ r.promises[id].state = "rejected"
        /\ r.promises[id].error.name = "DuplicateUriError"
        /\ r.remove_queue = rfp_queue
        /\ r.source = rfp_source
        /\ \A k \in DOMAIN rfp_promises : r.promises[k] = rfp_promises[k]

\* the queue discipline apart from the duplicate request
queue_discipline ==
    /\ rfp_source <=> (Len(rfp_queue) > 0)
    /\ \A k, m \in 1..Len(rfp_queue) :
           k < m => /\ rfp_queue[k].uri # rfp_queue[m].uri
                    /\ rfp_queue[k].controller < rfp_queue[m].controller
    /\ \A id \in DOMAIN rfp_promises :
           (rfp_promises[id].state = "pending") <=> (id \in Waiting(Provider))
    /\ (~rfp_enabled \/ rfp_decommissioned) => rfp_queue = <<>>
    /\ ~rfp_decommissioned =>
           /\ \A uri \in ProviderUris \cup {""} :
                  LET r == public_remove_item(Provider, uri)
                      id == Len(rfp_promises) + 1
                      waits == \E k \in 1..Len(rfp_queue) : rfp_queue[k].uri = uri
                  IN  /\ r.thrown = ""
                      /\ \A k \in DOMAIN rfp_promises : r.promises[k] = rfp_promises[k]
                      /\ (rfp_enabled /\ uri \in rfp_history /\ ~waits) =>
                             /\ r.promises[id] = Pending
                             /\ r.remove_queue =
                                    Append(rfp_queue, [uri |-> uri, controller |-> id])
                             /\ r.source
                      /\ (~rfp_enabled \/ uri \notin rfp_history) =>
                             /\ r.promises[id].state = "rejected"
                             /\ r.promises[id].error.name =
                                    (IF rfp_enabled THEN "InvalidUriError"
                                                    ELSE "HistoryDisabledError")
                             /\ r.remove_queue = rfp_queue
                             /\ r.source = rfp_source
           /\ rfp_source =>
                  LET r == remove_interval_cb(Provider)
                      first == Head(rfp_queue)
                  IN  /\ r.remove_queue = Tail(rfp_queue)
                      /\ r.source <=> (Len(rfp_queue) > 1)
                      /\ r.promises[first.controller].state =
                             (IF first.uri \in rfp_history THEN "fulfilled" ELSE "rejected")
                      /\ first.uri \notin r.history
                      /\ \A id \in DOMAIN rfp_promises \ {first.controller} :
                             r.promises[id] = rfp_promises[id]
           /\ rfp_enabled =>
                  cleaned_up(Provider,
                             settings_changed_cb([Provider EXCEPT !.enabled = FALSE], "none"),
                             "Recent history is now disabled")
           /\ cleaned_up(Provider, public_provider_decommission(Provider),
                         "Provider will be decommissioned")

\* C39: between ticks the removal timer is armed exactly when the queue is
\* not empty; the queue holds distinct URIs in the order their requests were
\* accepted, and the waiting requests are exactly the pending promises.
\* remove_item of a URI that is waiting rejects the new promise with
\* DuplicateUriError and changes nothing else; an accepted request goes to the
\* end of the queue.  A tick takes the first request off the queue and
\* settles its promise, and no other, by what its removal gave, and stops the
\* timer when the queue is empty.  Disabling the history and decommission()
\* reject every waiting request with QueueCleanupError and leave the queue
\* empty and the timer stopped.  No step changes a settled promise.
C39_RemovalQueue ==
    /\ queue_discipline
    /\ \A k \in 1..Len(rfp_queue) : duplicate_rejected(rfp_queue[k].uri)

\* C39 as the code has it: the same, with DuplicateUriError for a waiting URI
\* that the history still holds; a waiting URI that has left the history is
\* rejected with InvalidUriError, the waiting request undisturbed.
C39_RemovalQueueItemPresent ==
    /\ queue_discipline
    /\ \A k \in 1..Len(rfp_queue) :
           rfp_queue[k].uri \in rfp_history => duplicate_rejected(rfp_queue[k].uri)

\* of three requests one was a duplicate, one was fulfilled by its tick and
\* one was rejected when the history was switched off
C39_Witness ==
    /\ Len(rfp_promises) = 3
    /\ \E a, b, c \in DOMAIN rfp_promises :
           /\ rfp_promises[a].state = "fulfilled"
           /\ rfp_promises[b].error.name = "DuplicateUriError"
           /\ rfp_promises[c] = Rejected(Err("QueueCleanupError",
                                             "Recent history is now disabled"))
    /\ ~rfp_enabled
    /\ ~rfp_source

====
